---- MODULE Spec2Model ----
(***************************************************************************)
(* A model of the scriptdle parsing pipeline:                              *)
(*   - the chunked LLM parsers (parse_text_llm, parse_pdf_vision,          *)
(*     parse_transcript_llm) with GeminiClient's rate-limit retry loop,    *)
(*   - _parse_json_response / _repair_json on truncated model output,      *)
(*   - _chunk_text,                                                        *)
(*   - calculate_overlap of the validation stage,                          *)
(*   - the heuristic parser parse_shrek_text.                              *)
(* Python strings are sequences of one-character strings; positions are    *)
(* 1-based here and 0-based in the source.                                 *)
(***************************************************************************)
EXTENDS Integers, Sequences, FiniteSets, TLC

VARIABLES
    \* ---- _parse_json_response on one response (SpecJson)
    jpc,            \* "idle" | "done"
    jdoc,           \* the well-formed response the model produced
    jcut,           \* how many characters of it arrived (the truncation point)
    jwrap,          \* how the response is wrapped: "bare" | "fenced"
    jresult         \* what _parse_json_response returned

jsonVars == <<jpc, jdoc, jcut, jwrap, jresult>>

VARIABLES
    \* ---- parse_text_llm / parse_pdf_vision / parse_transcript_llm (Spec)
    parser,         \* which of the three runs: "text" | "vision" | "transcript"
    arg_title,      \* the caller's title argument (JNull is None)
    arg_movie_id,   \* the caller's movie_id argument
    nchunks,        \* len(chunks)
    chunk_results,  \* per response the endpoint may give, what this parser's
                    \* try block makes of it (worked out once, at the start)
    pc,             \* "loop" | "call" | "returned" | "raised"
    chunk_idx,      \* the loop's i: the index of the chunk in hand (0-based)
    attempt,        \* GeminiClient.generate: the attempt in hand
    backoff,        \* GeminiClient.generate: the next sleep
    events,         \* the endpoint calls and sleeps of the generate call in hand
    gen,            \* how that generate call ended: "running" | "returned" | "raised"
    all_lines, all_characters, detected_title,
    outcomes,       \* per finished chunk, what the endpoint gave for it
    result          \* the Scriptdle returned

llmVars == <<parser, arg_title, arg_movie_id, nchunks, chunk_results, pc, chunk_idx, attempt, backoff, events, gen,
             all_lines, all_characters, detected_title, outcomes, result>>

VARIABLES
    \* ---- _chunk_text (SpecChunk)
    cpc,            \* "idle" | "start" | "loop" | "done"
    ctext,          \* the text argument
    chunk_size,     \* the chunk_size argument
    overlap,        \* the overlap argument
    current_pos,    \* the loop's current_pos
    chunks,         \* the list being built, then returned
    spans,          \* per iteration so far, the slice text[current_pos:end_pos]
                    \* it cut and how its end was chosen
    iterations      \* the iterations so far

chunkVars == <<cpc, ctext, chunk_size, overlap, current_pos, chunks, spans, iterations>>

VARIABLES
    \* ---- calculate_overlap (SpecOverlap)
    opc,            \* "idle" | "start" | "loop" | "done"
    subtitle_lines, \* the subtitle_lines argument
    script_text,    \* the script_text argument
    sample_size,    \* the sample_size argument
    sample_lines,   \* the lines the loop examines
    line_idx,       \* how many of them the loop has examined
    matched_count,  \* the loop's matched_count
    matched,        \* which sample lines were counted in matched_count
    sample_matches, \* the loop's sample_matches
    validation      \* the ValidationResult returned

overlapVars == <<opc, subtitle_lines, script_text, sample_size, sample_lines, line_idx,
                 matched_count, matched, sample_matches, validation>>

VARIABLES
    \* ---- parse_shrek_text (SpecShrek)
    spc,            \* "idle" | "loop" | "done"
    mode,           \* the mode argument: "transcript" | "screenplay"
    file_lines,     \* f.readlines()
    line_no,        \* how many of them the loop has read
    current_char,   \* screenplay mode: the speaker in hand (<<>> is None or "")
    current_dialogue, \* screenplay mode: the dialogue lines gathered for it
    script_data     \* the records emitted

shrekVars == <<spc, mode, file_lines, line_no, current_char, current_dialogue, script_data>>

VARIABLES
    \* ---- validate_scripts and run_pipeline (SpecPipeline)
    ppc,            \* "idle", "step1", "step2", "step3", "validate", "step4", "done" or "raised"
    script_artifacts, \* the candidate scripts: what extraction and calculate_overlap give for each
    steps,          \* the steps argument of run_pipeline
    artifact_idx,   \* how many artifacts the validation loop has taken
    results,        \* the list validate_scripts builds, then validation_results
    best_script,    \* the ValidationResult handed to fuse_script_subtitles
    printed,        \* what the run has reported
    fusion_calls,   \* the calls of run_gemini_fusion
    fused,          \* what run_pipeline returns (<<>> is None)
    subtitle_info,  \* the SubtitleInfo of the run (<<>> is None)
    fusion_events   \* the endpoint calls and sleeps of run_gemini_fusion

pipeVars == <<ppc, script_artifacts, steps, artifact_idx, results, best_script, printed, fusion_calls, fused, fusion_events, subtitle_info>>

PipeIdle ==
    ppc = "idle" /\ script_artifacts = <<>> /\ steps = {} /\ artifact_idx = 0 /\ results = <<>> /\ best_script = <<>> /\ printed = <<>> /\ fusion_calls = 0 /\ fused = <<>> /\ subtitle_info = <<>> /\ fusion_events = <<>>

VARIABLES
    \* ---- the text cleaners of utils/text_cleaning.py applied over and again (SpecClean)
    cleaner,        \* the function under application, "" when none
    raw_text,       \* the string x it is first given
    passes          \* what each application so far has returned

cleanVars == <<cleaner, raw_text, passes>>

CleanIdle ==
    cleaner = "" /\ raw_text = <<>> /\ passes = <<>>

VARIABLES
    \* ---- extract_direct, extract_simple and extract_ocr on one PDF (SpecExtract)
    xpc,            \* "idle", "open", "pages" or "returned"
    extractor,      \* which of the three functions runs
    pdf,            \* the source: whether the file exists, what each page yields, where reading it raises
    ocr_available,  \* OCR_AVAILABLE
    page_idx,       \* the pages read so far
    all_text,       \* the page texts gathered
    pages_with_text,\* the pages of at least MIN_TEXT_CHARS_PER_PAGE characters
    extracted       \* what the function returned: <<>> before it returns, <<"None">>, or <<"str", text>>

extractVars == <<xpc, extractor, pdf, ocr_available, page_idx, all_text, pages_with_text, extracted>>

ExtractIdle ==
    xpc = "idle" /\ extractor = "" /\ pdf = <<>> /\ ocr_available = FALSE /\ page_idx = 0 /\ all_text = <<>> /\ pages_with_text = 0 /\ extracted = <<>>

VARIABLES
    \* ---- cmd_parse of parser/main.py with parse_transcript_pdf (SpecCmdParse)
    mpc,            \* "idle", "start", "extract", "read", "parse", "report" or "exited"
    file,           \* the file named on the command line and what each way of reading it would give
    tried,          \* the extraction strategies attempted, in order
    file_text,      \* the text in hand (<<>> is None or the empty string)
    parsed,         \* what the parser returned
    exit_status,    \* the exit status, -1 while running
    stderr          \* the error messages printed

cmdVars == <<mpc, file, tried, file_text, parsed, exit_status, stderr>>

CmdIdle ==
    mpc = "idle" /\ file = <<>> /\ tried = <<>> /\ file_text = <<>> /\ parsed = "None" /\ exit_status = -1 /\ stderr = <<>>

VARIABLES
    \* ---- fetch_url of extractors/url.py (SpecFetch)
    upc,            \* "idle", "start", "fallback", "returned" or "raised"
    url,            \* the URL asked for
    use_browser,    \* the argument use_browser: "None", "True" or "False"
    site,           \* what the plain request and the browser would each give for the URL
    fetches,        \* the calls made, "simple" and "browser", in order
    html            \* what fetch_url returned

urlVars == <<upc, url, use_browser, site, fetches, html>>

UrlIdle ==
    upc = "idle" /\ url = <<>> /\ use_browser = "None" /\ site = <<>> /\ fetches = <<>> /\ html = <<>>

laterVars == <<pipeVars, cleanVars, extractVars, cmdVars, urlVars>>

LaterIdle == PipeIdle /\ CleanIdle /\ ExtractIdle /\ CmdIdle /\ UrlIdle

vars == <<jsonVars, llmVars, chunkVars, overlapVars, shrekVars, laterVars>>

\* _chunk_text, calculate_overlap and parse_shrek_text at rest
ChunkIdle ==
    /\ cpc = "idle" /\ ctext = <<>> /\ chunk_size = 0 /\ overlap = 0 /\ current_pos = 0
    /\ chunks = <<>> /\ spans = <<>> /\ iterations = 0

OverlapIdle ==
    /\ opc = "idle" /\ subtitle_lines = <<>> /\ script_text = <<>> /\ sample_size = 0
    /\ sample_lines = <<>> /\ line_idx = 0 /\ matched_count = 0 /\ matched = {}
    /\ sample_matches = <<>> /\ validation = <<>>

ShrekIdle ==
    /\ spc = "idle" /\ mode = "screenplay" /\ file_lines = <<>> /\ line_no = 0
    /\ current_char = <<>> /\ current_dialogue = <<>> /\ script_data = <<>>

(***************************************************************************)
(* Strings                                                                 *)
(***************************************************************************)
Lowers == <<"a","b","c","d","e","f","g","h","i","j","k","l","m",
            "n","o","p","q","r","s","t","u","v","w","x","y","z">>
Uppers == <<"A","B","C","D","E","F","G","H","I","J","K","L","M",
            "N","O","P","Q","R","S","T","U","V","W","X","Y","Z">>
Digits == {"0","1","2","3","4","5","6","7","8","9"}

\* U+00A0, what html.unescape makes of "&nbsp;"; str.strip() and \s treat it
\* as whitespace.
NBSP == "<nbsp>"

\* What str.strip(), str.split() and the regex class \s call whitespace.
Whitespace == {" ", "\n", "\t", "\r", NBSP}

\* JSON's own whitespace (json.loads skips only these).
JsonWs == {" ", "\n", "\t", "\r"}

IsLower(c) == \E i \in 1..26 : Lowers[i] = c
IsUpper(c) == \E i \in 1..26 : Uppers[i] = c

UpperChar(c) == IF IsLower(c) THEN Uppers[CHOOSE i \in 1..26 : Lowers[i] = c] ELSE c
LowerChar(c) == IF IsUpper(c) THEN Lowers[CHOOSE i \in 1..26 : Uppers[i] = c] ELSE c

\* str.upper() / str.lower()
Upper(s) == [i \in 1..Len(s) |-> UpperChar(s[i])]
Lower(s) == [i \in 1..Len(s) |-> LowerChar(s[i])]

RECURSIVE LStrip(_)
LStrip(s) == IF s # <<>> /\ Head(s) \in Whitespace THEN LStrip(Tail(s)) ELSE s

RECURSIVE RStrip(_)
RStrip(s) ==
    IF s # <<>> /\ s[Len(s)] \in Whitespace THEN RStrip(SubSeq(s, 1, Len(s) - 1)) ELSE s

\* str.strip()
Strip(s) == RStrip(LStrip(s))

\* s[a:b] of Python for 0 <= a, b (0-based, end exclusive)
Slice(s, a, b) ==
    LET e == IF b > Len(s) THEN Len(s) ELSE b
    IN  IF a >= e THEN <<>> ELSE SubSeq(s, a + 1, e)

\* s.count(c) for a single character c
Count(s, c) == Cardinality({i \in 1..Len(s) : s[i] = c})

\* pat occurs in s at 1-based position p
OccursAt(s, pat, p) ==
    /\ p >= 1
    /\ p + Len(pat) - 1 <= Len(s)
    /\ \A j \in 1..Len(pat) : s[p + j - 1] = pat[j]

\* s.find(pat), 0-based, -1 when absent
Find(s, pat) ==
    LET hits == {p \in 1..(Len(s) + 1) : OccursAt(s, pat, p)}
    IN  IF hits = {} THEN -1 ELSE (CHOOSE p \in hits : \A q \in hits : p <= q) - 1

\* s.rfind(pat), 0-based, -1 when absent
RFind(s, pat) ==
    LET hits == {p \in 1..(Len(s) + 1) : OccursAt(s, pat, p)}
    IN  IF hits = {} THEN -1 ELSE (CHOOSE p \in hits : \A q \in hits : p >= q) - 1

\* pat in s
Contains(s, pat) == Find(s, pat) >= 0

RECURSIVE Repeat(_, _)
Repeat(c, n) == IF n <= 0 THEN <<>> ELSE <<c>> \o Repeat(c, n - 1)

RECURSIVE Flatten(_)
Flatten(ss) == IF ss = <<>> THEN <<>> ELSE Head(ss) \o Flatten(Tail(ss))

(***************************************************************************)
(* JSON values and json.loads                                              *)
(***************************************************************************)
\* A JSON value: t is its type; s the characters of a string or number;
\* keys/items the members of an object (in order) or the items of an array.
JNull      == [t |-> "null", s |-> <<>>, keys |-> <<>>, items |-> <<>>]
JStr(s)    == [t |-> "str",  s |-> s,    keys |-> <<>>, items |-> <<>>]
JNum(s)    == [t |-> "num",  s |-> s,    keys |-> <<>>, items |-> <<>>]
JArr(xs)   == [t |-> "arr",  s |-> <<>>, keys |-> <<>>, items |-> xs]
JObj(ks, xs) == [t |-> "obj", s |-> <<>>, keys |-> ks,  items |-> xs]

\* Python truthiness of a decoded value
Truthy(v) ==
    CASE v.t = "null" -> FALSE
      [] v.t = "str"  -> v.s # <<>>
      [] v.t = "num"  -> v.s # <<"0">>
      [] v.t = "arr"  -> v.items # <<>>
      [] v.t = "obj"  -> v.keys # <<>>

HasKey(obj, k) == \E i \in 1..Len(obj.keys) : obj.keys[i] = k

\* dict.get(k, default): json.loads keeps the last of duplicate keys
Get(obj, k, default) ==
    IF HasKey(obj, k)
    THEN LET i == CHOOSE i \in 1..Len(obj.keys) :
                    /\ obj.keys[i] = k
                    /\ \A j \in 1..Len(obj.keys) : obj.keys[j] = k => j <= i
         IN  obj.items[i]
    ELSE default

PFail == [ok |-> FALSE, v |-> JNull, p |-> 0]
POk(v, p) == [ok |-> TRUE, v |-> v, p |-> p]

\* first position >= p (1-based) that holds no JSON whitespace
RECURSIVE SkipWs(_, _)
SkipWs(s, p) == IF p <= Len(s) /\ s[p] \in JsonWs THEN SkipWs(s, p + 1) ELSE p

\* the string literal that opens at p (s[p] is the quote); the inputs hold no
\* backslash, and a raw control character inside a literal is an error
ParseString(s, p) ==
    LET closes == {q \in (p + 1)..Len(s) : s[q] = "\""}
    IN  IF closes = {} THEN PFail
        ELSE LET q == CHOOSE q \in closes : \A r \in closes : q <= r
                 body == SubSeq(s, p + 1, q - 1)
             IN  IF \E i \in 1..Len(body) : body[i] \in {"\n", "\t", "\r"}
                 THEN PFail
                 ELSE POk(JStr(body), q + 1)

RECURSIVE DigitsEnd(_, _)
DigitsEnd(s, p) == IF p <= Len(s) /\ s[p] \in Digits THEN DigitsEnd(s, p + 1) ELSE p

\* an unsigned integer literal at p: "0" or a run of digits not led by 0
ParseNumber(s, p) ==
    LET e == IF s[p] = "0" THEN p + 1 ELSE DigitsEnd(s, p)
    IN  POk(JNum(SubSeq(s, p, e - 1)), e)

RECURSIVE ParseValue(_, _), ParseMembers(_, _, _, _), ParseElements(_, _, _)
RECURSIVE MemberKey(_, _, _, _), MemberColon(_, _, _, _, _), MemberValue(_, _, _, _)
RECURSIVE MemberNext(_, _, _, _), ElementValue(_, _, _), ElementNext(_, _, _)

\* after "{" or "[" and its whitespace, at q: the empty container or its content
ObjectFrom(s, q) ==
    IF q <= Len(s) /\ s[q] = "}" THEN POk(JObj(<<>>, <<>>), q + 1)
    ELSE ParseMembers(s, q, <<>>, <<>>)

ArrayFrom(s, q) ==
    IF q <= Len(s) /\ s[q] = "]" THEN POk(JArr(<<>>), q + 1)
    ELSE ParseElements(s, q, <<>>)

\* one value starting at p (leading whitespace already skipped)
ParseValue(s, p) ==
    IF p > Len(s) THEN PFail
    ELSE CASE s[p] = "\"" -> ParseString(s, p)
           [] s[p] \in Digits -> ParseNumber(s, p)
           [] s[p] = "{" -> ObjectFrom(s, SkipWs(s, p + 1))
           [] s[p] = "[" -> ArrayFrom(s, SkipWs(s, p + 1))
           [] OccursAt(s, <<"n","u","l","l">>, p) -> POk(JNull, p + 4)
           [] OTHER -> PFail

\* the members of an object from p (a key must open here) up to its "}"
ParseMembers(s, p, ks, xs) ==
    IF p > Len(s) \/ s[p] # "\"" THEN PFail
    ELSE MemberKey(s, ParseString(s, p), ks, xs)

\* k: the key just read
MemberKey(s, k, ks, xs) ==
    IF ~k.ok THEN PFail ELSE MemberColon(s, k, SkipWs(s, k.p), ks, xs)

\* c: where the colon must stand
MemberColon(s, k, c, ks, xs) ==
    IF c > Len(s) \/ s[c] # ":" THEN PFail
    ELSE MemberValue(s, ParseValue(s, SkipWs(s, c + 1)), Append(ks, k.v.s), xs)

\* v: the member's value just read
MemberValue(s, v, ks, xs) ==
    IF ~v.ok THEN PFail ELSE MemberNext(s, SkipWs(s, v.p), ks, Append(xs, v.v))

\* d: where "," or "}" must stand
MemberNext(s, d, ks, xs) ==
    IF d > Len(s) THEN PFail
    ELSE IF s[d] = "}" THEN POk(JObj(ks, xs), d + 1)
    ELSE IF s[d] = "," THEN ParseMembers(s, SkipWs(s, d + 1), ks, xs)
    ELSE PFail

\* the items of an array from p up to its "]"
ParseElements(s, p, xs) == ElementValue(s, ParseValue(s, p), xs)

\* v: the item just read
ElementValue(s, v, xs) ==
    IF ~v.ok THEN PFail ELSE ElementNext(s, SkipWs(s, v.p), Append(xs, v.v))

\* d: where "," or "]" must stand
ElementNext(s, d, xs) ==
    IF d > Len(s) THEN PFail
    ELSE IF s[d] = "]" THEN POk(JArr(xs), d + 1)
    ELSE IF s[d] = "," THEN ParseElements(s, SkipWs(s, d + 1), xs)
    ELSE PFail

\* r: the top-level value read; only whitespace may follow it
LoadsEnd(s, r) ==
    IF r.ok /\ SkipWs(s, r.p) > Len(s) THEN [ok |-> TRUE, v |-> r.v]
    ELSE [ok |-> FALSE, v |-> JNull]

\* json.loads(s): [ok, v]; not ok stands for json.JSONDecodeError
JsonLoads(s) == LoadsEnd(s, ParseValue(s, SkipWs(s, 1)))

(***************************************************************************)
(* _parse_json_response and _repair_json                                   *)
(***************************************************************************)
\* the backquote character (the lexer admits none inside a string literal)
BACKQUOTE == "<bq>"
Backticks == <<BACKQUOTE, BACKQUOTE, BACKQUOTE>>
K_json == <<"j","s","o","n">>

\* s.find(pat, start) restricted to hits at 0-based positions >= start
FindFrom(s, pat, start) ==
    LET hits == {p \in (start + 1)..(Len(s) + 1) : OccursAt(s, pat, p)}
    IN  IF hits = {} THEN -1 ELSE (CHOOSE p \in hits : \A q \in hits : p <= q) - 1

RECURSIVE SkipSpace(_, _)
\* 0-based position after the run of \s characters that starts at 0-based p
SkipSpace(s, p) == IF p < Len(s) /\ s[p + 1] \in Whitespace THEN SkipSpace(s, p + 1) ELSE p

\* The fenced-block regex search of _parse_json_response (three backquotes,
\* an optional "json", whitespace, a lazy group, then whitespace and three
\* backquotes or the end of the string): whether it matches, and
\* group(1).strip(). The lazy group ends where a closing fence (after optional
\* whitespace) or the end of the string is met first.
FenceMatch(response) ==
    LET open == Find(response, Backticks)
    IN  IF open < 0 THEN [matched |-> FALSE, text |-> <<>>]
        ELSE LET a1 == open + 3
                 a2 == IF OccursAt(response, K_json, a1 + 1) THEN a1 + 4 ELSE a1
                 a3 == SkipSpace(response, a2)
                 close == FindFrom(response, Backticks, a3)
                 e == IF close < 0 THEN Len(response) ELSE close
             IN  [matched |-> TRUE, text |-> Strip(Slice(response, a3, e))]

\* d: what json.loads made of the text; JNull stands for None
LoadedOrNone(d) == IF d.ok THEN d.v ELSE JNull

\* json_text[:last_comma] if last_comma > 0
TrimToLastComma(json_text, last_comma) ==
    IF last_comma > 0 THEN Slice(json_text, 0, last_comma) ELSE json_text

\* _repair_json of llm_text.py; JNull stands for None
llm_text_repair_json(json_text) ==
    LET open_braces == Count(json_text, "{")
        close_braces == Count(json_text, "}")
        open_brackets == Count(json_text, "[")
        close_brackets == Count(json_text, "]")
    IN  IF open_braces > close_braces \/ open_brackets > close_brackets
        THEN LoadedOrNone(JsonLoads(
                 TrimToLastComma(json_text, RFind(json_text, <<",">>))
                 \o Repeat("]", open_brackets - close_brackets)
                 \o Repeat("}", open_braces - close_braces)))
        ELSE JNull

\* a strategy's verdict: ret says _parse_json_response returns v now
Returns(v) == [ret |-> TRUE, v |-> v]
GoesOn == [ret |-> FALSE, v |-> JNull]

\* "if repaired: return repaired"
RepairedOrGoOn(repaired) == IF Truthy(repaired) THEN Returns(repaired) ELSE GoesOn

\* d: json.loads(json_text); on JSONDecodeError the repair is tried
LoadedOrRepair(json_text, d) ==
    IF d.ok THEN Returns(d.v) ELSE RepairedOrGoOn(llm_text_repair_json(json_text))

\* try: return json.loads(json_text) / except: the repair, if it is truthy
LoadOrRepair(json_text) == LoadedOrRepair(json_text, JsonLoads(json_text))

\* d: json.loads(json_text); an exception is passed over
LoadedOrGoOn(d) == IF d.ok THEN Returns(d.v) ELSE GoesOn

\* the second strategy on a fenced block; fence is the regex match
FencedRepair(fence) == IF fence.matched THEN LoadOrRepair(fence.text) ELSE GoesOn
FencedPlain(fence) == IF fence.matched THEN LoadedOrGoOn(JsonLoads(fence.text)) ELSE GoesOn

\* the third strategy on the text from the first "{"; start is response.find('{')
BracedRepair(response, start) ==
    IF start >= 0 THEN LoadOrRepair(Slice(response, start, Len(response))) ELSE GoesOn
BracedPlain(response, start) ==
    IF start >= 0 THEN LoadedOrGoOn(JsonLoads(Slice(response, start, Len(response))))
    ELSE GoesOn

\* the verdicts of the strategies, in the order they are tried; the last
\* resort is None
FirstOf(first, second, third) ==
    IF first.ret THEN first.v
    ELSE IF second.ret THEN second.v
    ELSE IF third.ret THEN third.v
    ELSE JNull

\* _parse_json_response of llm_text.py; JNull stands for None
llm_text_parse_json_response(response) ==
    FirstOf(LoadedOrGoOn(JsonLoads(response)),
            FencedRepair(FenceMatch(response)),
            BracedRepair(response, Find(response, <<"{">>)))

\* _parse_json_response of llm_vision.py: the same three strategies, no repair
llm_vision_parse_json_response(response) ==
    FirstOf(LoadedOrGoOn(JsonLoads(response)),
            FencedPlain(FenceMatch(response)),
            BracedPlain(response, Find(response, <<"{">>)))

\* _parse_json_response of llm_transcript.py: fenced block, then first "{"
llm_transcript_parse_json_response(response) ==
    FirstOf(GoesOn,
            FencedPlain(FenceMatch(response)),
            BracedPlain(response, Find(response, <<"{">>)))

(***************************************************************************)
(* Well-formed chunk responses, as SCRIPTDLE_SYSTEM_PROMPT asks for them   *)
(***************************************************************************)
K_title == <<"t","i","t","l","e">>
K_lines == <<"l","i","n","e","s">>
K_character == <<"c","h","a","r","a","c","t","e","r">>
K_text == <<"t","e","x","t">>

Quote(s) == <<"\"">> \o s \o <<"\"">>

\* the kinds of dialogue text a response element carries
ElemKinds == {"plain", "comma"}
ElemText(kind) == IF kind = "comma" THEN <<"h","i",","," ","y","o">> ELSE <<"h","i">>
ElemChar(i) == <<Uppers[i]>>

\* {"character": "<c>", "text": "<t>"}
ElemJson(c, t) ==
    <<"{">> \o Quote(K_character) \o <<":", " ">> \o Quote(c) \o <<",", " ">>
            \o Quote(K_text) \o <<":", " ">> \o Quote(t) \o <<"}">>

ElemValue(c, t) == JObj(<<K_character, K_text>>, <<JStr(c), JStr(t)>>)

DocHead ==
    <<"{">> \o Quote(K_title) \o <<":", " ">> \o Quote(<<"T">>) \o <<",", " ">>
            \o Quote(K_lines) \o <<":", " ", "[">>

RECURSIVE DocElems(_, _)
\* the elements of kinds[i..], joined by ", "
DocElems(kinds, i) ==
    IF i > Len(kinds) THEN <<>>
    ELSE ElemJson(ElemChar(i), ElemText(kinds[i]))
         \o (IF i < Len(kinds) THEN <<",", " ">> ELSE <<>>)
         \o DocElems(kinds, i + 1)

\* {"title": "T", "lines": [e1, ..., en]}
DocText(kinds) == DocHead \o DocElems(kinds, 1) \o <<"]", "}">>

\* how many characters of DocText(kinds) end with element i's closing brace
ElemEnd(kinds, i) == Len(DocHead \o DocElems(SubSeq(kinds, 1, i), 1))

\* the elements of the document that are complete within its first cut characters
CompleteElems(kinds, cut) ==
    LET n == Cardinality({i \in 1..Len(kinds) : ElemEnd(kinds, i) <= cut})
    IN  [i \in 1..n |-> ElemValue(ElemChar(i), ElemText(kinds[i]))]

MaxElems == 2

\* the LLM parsers at rest (the state of every specification but Spec)
LlmIdle ==
    /\ parser = "text" /\ arg_title = JNull /\ arg_movie_id = <<>> /\ nchunks = 0
    /\ chunk_results = <<>>
    /\ pc = "idle" /\ chunk_idx = 0 /\ attempt = 0 /\ backoff = 0 /\ events = <<>>
    /\ gen = "returned" /\ all_lines = <<>> /\ all_characters = {}
    /\ detected_title = JStr(<<>>) /\ outcomes = <<>> /\ result = <<>>

RECURSIVE SeqsUpTo(_, _)
\* the sequences over S of length 0..n
SeqsUpTo(S, n) ==
    IF n = 0 THEN {<<>>}
    ELSE LET shorter == SeqsUpTo(S, n - 1)
         IN  shorter \cup {Append(q, x) : q \in {r \in shorter : Len(r) = n - 1}, x \in S}

\* the response as it arrives: the first cut characters of the document, bare
\* or inside a code fence (whose closing fence a truncation loses)
ResponseText(kinds, cut, wrap) ==
    LET doc == DocText(kinds)
        body == SubSeq(doc, 1, cut)
    IN  IF wrap = "bare" THEN body
        ELSE Backticks \o K_json \o <<"\n">> \o body
             \o (IF cut = Len(doc) THEN <<"\n">> \o Backticks ELSE <<>>)

JsonInit ==
    /\ LlmIdle /\ ChunkIdle /\ OverlapIdle /\ ShrekIdle /\ LaterIdle
    /\ jpc = "idle"
    /\ jdoc \in {k \in SeqsUpTo(ElemKinds, MaxElems) : Len(k) >= 1}
    /\ jcut \in 0..Len(DocText(jdoc))
    /\ jwrap \in {"bare", "fenced"}
    /\ jresult = JNull

\* one call of llm_text's _parse_json_response
ParseResponse ==
    /\ jpc = "idle"
    /\ jresult' = llm_text_parse_json_response(ResponseText(jdoc, jcut, jwrap))
    /\ jpc' = "done"
    /\ UNCHANGED <<jdoc, jcut, jwrap>>
    /\ UNCHANGED <<llmVars, chunkVars, overlapVars, shrekVars, laterVars>>

JsonNext == ParseResponse

SpecJson == JsonInit /\ [][JsonNext]_vars

\* C8: a well-formed response truncated after at least one complete array
\* element is parsed (through the repair) to an object whose lines are exactly
\* the complete elements before the truncation point.
C8_RepairRecoversCompleteElements ==
    (/\ jpc = "done"
     /\ jwrap = "bare"
     /\ jcut < Len(DocText(jdoc))
     /\ jcut >= ElemEnd(jdoc, 1))
    => /\ jresult.t = "obj"
       /\ Get(jresult, K_lines, JNull) = JArr(CompleteElems(jdoc, jcut))

(***************************************************************************)
(* _convert_scriptdle_data                                                 *)
(***************************************************************************)
K_content == <<"c","o","n","t","e","n","t">>
K_scenes == <<"s","c","e","n","e","s">>
K_dialogue == <<"d","i","a","l","o","g","u","e">>
K_characters == <<"c","h","a","r","a","c","t","e","r","s">>

EmptyStr == JStr(<<>>)

\* Python's  a or b
Or(a, b) == IF Truthy(a) THEN a ELSE b

\* DialogueLine(character=..., text=...)
DialogueLine(character, text) == [character |-> character, text |-> text]

\* the result of a conversion: raised stands for an exception leaving it
ConvRaise == [raised |-> TRUE, lines |-> <<>>, characters |-> {}]
ConvOk(lines, characters) == [raised |-> FALSE, lines |-> lines, characters |-> characters]

\* re.sub(r'\s+', ' ', text)
RECURSIVE CollapseSpace(_)
CollapseSpace(s) ==
    IF s = <<>> THEN <<>>
    ELSE IF Head(s) \in Whitespace
         THEN <<" ">> \o CollapseSpace(LStrip(s))
         ELSE <<Head(s)>> \o CollapseSpace(Tail(s))

\* the "for item in line_data" loop of llm_text.py / llm_vision.py from item i
\* on: .get on a non-object item, .strip on a non-string value raise
RECURSIVE ConvertItems(_, _, _, _)
ConvertItems(items, i, lines, characters) ==
    IF i > Len(items) THEN ConvOk(lines, characters)
    ELSE LET item == items[i]
         IN  IF item.t # "obj" THEN ConvRaise
             ELSE LET c == Or(Get(item, K_character, JNull), EmptyStr)
                      t == Or(Or(Get(item, K_text, JNull), Get(item, K_content, JNull)),
                              EmptyStr)
                  IN  IF c.t # "str" \/ t.t # "str" THEN ConvRaise
                      ELSE LET char == Upper(Strip(c.s))
                               text == Strip(t.s)
                           IN  IF char # <<>> /\ text # <<>>
                               THEN ConvertItems(items, i + 1,
                                        Append(lines, DialogueLine(char, text)),
                                        characters \cup {char})
                               ELSE ConvertItems(items, i + 1, lines, characters)

\* the same loop in llm_transcript.py, which also collapses inner whitespace
RECURSIVE TranscriptConvertItems(_, _, _, _)
TranscriptConvertItems(items, i, lines, characters) ==
    IF i > Len(items) THEN ConvOk(lines, characters)
    ELSE LET item == items[i]
         IN  IF item.t # "obj" THEN ConvRaise
             ELSE LET c == Or(Get(item, K_character, JNull), EmptyStr)
                      t == Or(Or(Get(item, K_text, JNull), Get(item, K_content, JNull)),
                              EmptyStr)
                  IN  IF c.t # "str" \/ t.t # "str" THEN ConvRaise
                      ELSE LET char == Upper(Strip(c.s))
                               text == Strip(CollapseSpace(Strip(t.s)))
                           IN  IF char # <<>> /\ text # <<>>
                               THEN TranscriptConvertItems(items, i + 1,
                                        Append(lines, DialogueLine(char, text)),
                                        characters \cup {char})
                               ELSE TranscriptConvertItems(items, i + 1, lines, characters)

\* iterating v, which is no list, runs no iteration and raises nothing: only an
\* empty string or an empty dict (None and numbers raise TypeError; the
\* characters of a string and the keys of a dict have no .get)
IterEmptyOk(v) == v.t \in {"str", "obj"} /\ ~Truthy(v)

\* the dialogue of one scene that the fallback appends to line_data; raised
\* when a scene or a dialogue entry is no object or holds no list
RECURSIVE SceneDialogue(_, _, _)
SceneDialogue(dials, j, acc) ==
    IF j > Len(dials) THEN [raised |-> FALSE, items |-> acc]
    ELSE LET dial == dials[j]
         IN  IF dial.t # "obj" THEN [raised |-> TRUE, items |-> <<>>]
             ELSE LET char == Get(dial, K_character, JNull)
                      text == Or(Get(dial, K_text, JNull), Get(dial, K_content, JNull))
                  IN  IF Truthy(char) /\ Truthy(text)
                      THEN SceneDialogue(dials, j + 1,
                               Append(acc, JObj(<<K_character, K_text>>, <<char, text>>)))
                      ELSE SceneDialogue(dials, j + 1, acc)

RECURSIVE ScenesFallback(_, _, _)
ScenesFallback(scenes, i, acc) ==
    IF i > Len(scenes) THEN [raised |-> FALSE, items |-> acc]
    ELSE LET scene == scenes[i]
         IN  IF scene.t # "obj" THEN [raised |-> TRUE, items |-> <<>>]
             ELSE LET dials == Get(scene, K_dialogue, JArr(<<>>))
                  IN  IF dials.t # "arr"
                      THEN IF IterEmptyOk(dials) THEN ScenesFallback(scenes, i + 1, acc)
                           ELSE [raised |-> TRUE, items |-> <<>>]
                      ELSE LET d == SceneDialogue(dials.items, 1, acc)
                           IN  IF d.raised THEN d ELSE ScenesFallback(scenes, i + 1, d.items)

\* the "for char in data.get('characters', [])" loop from entry i on
RECURSIVE RosterCharacters(_, _, _)
RosterCharacters(roster, i, characters) ==
    IF i > Len(roster) THEN [raised |-> FALSE, characters |-> characters]
    ELSE LET char == roster[i]
         IN  IF ~Truthy(char) THEN RosterCharacters(roster, i + 1, characters)
             ELSE IF char.t # "str" THEN [raised |-> TRUE, characters |-> {}]
             ELSE RosterCharacters(roster, i + 1, characters \cup {Upper(Strip(char.s))})

\* _convert_scriptdle_data of llm_text.py and of llm_vision.py (the same code)
llm_text_convert_scriptdle_data(data) ==
    IF data.t # "obj" THEN ConvRaise
    ELSE LET line_data == Get(data, K_lines, JArr(<<>>))
             scenes == Get(data, K_scenes, JArr(<<>>))
             \* "if not line_data": the scenes fallback appends to line_data
             fallback == IF Truthy(line_data) THEN [raised |-> FALSE, items |-> <<>>]
                         ELSE IF scenes.t # "arr"
                              THEN [raised |-> ~IterEmptyOk(scenes), items |-> <<>>]
                         ELSE ScenesFallback(scenes.items, 1, <<>>)
         IN  IF fallback.raised THEN ConvRaise
             \* a line_data that is no list: append or the iteration raises,
             \* except over an empty string or an empty object
             ELSE IF line_data.t # "arr"
                  THEN IF IterEmptyOk(line_data) /\ fallback.items = <<>>
                       THEN ConvOk(<<>>, {})
                       ELSE ConvRaise
             ELSE LET conv == ConvertItems(line_data.items \o fallback.items, 1, <<>>, {})
                      roster == Get(data, K_characters, JArr(<<>>))
                  IN  IF conv.raised THEN ConvRaise
                      ELSE IF roster.t # "arr"
                           THEN IF IterEmptyOk(roster) THEN conv ELSE ConvRaise
                      ELSE LET r == RosterCharacters(roster.items, 1, conv.characters)
                           IN  IF r.raised THEN ConvRaise
                               ELSE ConvOk(conv.lines, r.characters)

\* _convert_scriptdle_data of llm_transcript.py
llm_transcript_convert_scriptdle_data(data) ==
    IF data.t # "obj" THEN ConvRaise
    ELSE LET line_data == Get(data, K_lines, Get(data, K_dialogue, JArr(<<>>)))
         IN  IF line_data.t # "arr"
             THEN IF IterEmptyOk(line_data) THEN ConvOk(<<>>, {}) ELSE ConvRaise
             ELSE TranscriptConvertItems(line_data.items, 1, <<>>, {})

(***************************************************************************)
(* GeminiClient.generate / generate_with_image                             *)
(***************************************************************************)
MAX_RETRIES == 5
INITIAL_BACKOFF == 60
MAX_BACKOFF == 300

Min(a, b) == IF a <= b THEN a ELSE b
Max(a, b) == IF a >= b THEN a ELSE b

\* str(e) of the exceptions the endpoint raises
Msg429 == <<"4","2","9"," ","q","u","o","t","a">>
MsgExhausted == <<"R","e","s","o","u","r","c","e"," ","e","x","h","a","u","s","t","e","d">>
MsgServer == <<"5","0","0"," ","e","r","r","o","r">>
ErrorMessages == {Msg429, MsgExhausted, MsgServer}

\* IsRateLimit as it would be if every exception were taken for a rate limit
IsRateLimit_any(error_str) == TRUE

\* "429" in error_str or "Resource exhausted" in error_str
IsRateLimit(error_str) ==
    \/ Contains(error_str, <<"4","2","9">>)
    \/ Contains(error_str, MsgExhausted)

\* NextBackoff as it would be without the cap
NextBackoff_uncapped(b) == b * 2

\* backoff = min(backoff * 2, MAX_BACKOFF)
NextBackoff(b) == Min(b * 2, MAX_BACKOFF)

\* if attempt < MAX_RETRIES - 1
MayRetry(a) == a < MAX_RETRIES - 1

\* one entry of the log of a generate call
CallEvent(out) == [ev |-> "call", out |-> out, secs |-> 0]
SleepEvent(secs) == [ev |-> "sleep", out |-> "", secs |-> secs]

(***************************************************************************)
(* The responses the endpoint may give for a chunk                         *)
(***************************************************************************)
RECURSIVE JoinWith(_, _)
JoinWith(ss, sep) ==
    IF ss = <<>> THEN <<>>
    ELSE IF Len(ss) = 1 THEN Head(ss)
    ELSE Head(ss) \o sep \o JoinWith(Tail(ss), sep)

ObjText(members) == <<"{">> \o JoinWith(members, <<",", " ">>) \o <<"}">>
ArrText(items) == <<"[">> \o JoinWith(items, <<",", " ">>) \o <<"]">>
Member(k, v) == Quote(k) \o <<":", " ">> \o v

Responses == <<
    \* 1: a well-formed response
    DocText(<<"plain">>),
    \* 2: names to normalise, and items with a blank text or no character
    ObjText(<<Member(K_title, Quote(<<"U">>)),
              Member(K_lines, ArrText(<<
                  ElemJson(<<" ", "b", " ">>, <<"y", "o">>),
                  ElemJson(<<"C">>, <<" ">>),
                  ElemJson(<<>>, <<"h", "i">>)>>))>>),
    \* 3: a roster of characters beside the lines, and "content" for "text"
    ObjText(<<Member(K_lines, ArrText(<<
                  ObjText(<<Member(K_character, Quote(<<"A">>)),
                            Member(K_content, Quote(<<"y", "o">>))>>)>>)),
              Member(K_characters, ArrText(<<Quote(<<"Z">>)>>))>>),
    \* 4: a title that is a JSON number
    ObjText(<<Member(K_title, <<"7">>),
              Member(K_lines, ArrText(<<ElemJson(<<"B">>, <<"h", "i">>)>>))>>),
    \* 5: no JSON at all
    <<"o", "o", "p", "s">>,
    \* 6: a response cut off after the separator that follows its first element
    SubSeq(DocText(<<"plain", "plain">>), 1, ElemEnd(<<"plain", "plain">>, 1) + 1),
    \* 7: an item whose character is a number
    ObjText(<<Member(K_title, Quote(<<"V">>)),
              Member(K_lines, ArrText(<<
                  ObjText(<<Member(K_character, <<"7">>),
                            Member(K_text, Quote(<<"h", "i">>))>>)>>))>>),
    \* 8: dialogue nested in scenes
    ObjText(<<Member(K_scenes, ArrText(<<
                  ObjText(<<Member(K_dialogue, ArrText(<<
                      ElemJson(<<"c">>, <<"y", "o">>)>>))>>)>>))>>)
>>

Parsers == {"text", "vision", "transcript"}

\* the module's own _parse_json_response
parse_json_response(p, response) ==
    CASE p = "text" -> llm_text_parse_json_response(response)
      [] p = "vision" -> llm_vision_parse_json_response(response)
      [] p = "transcript" -> llm_transcript_parse_json_response(response)

\* the module's own _convert_scriptdle_data
convert_scriptdle_data(p, data) ==
    IF p = "transcript" THEN llm_transcript_convert_scriptdle_data(data)
    ELSE llm_text_convert_scriptdle_data(data)

ChunkFailed == [failed |-> TRUE, lines |-> <<>>, characters |-> {}, title |-> JNull]

\* Converted as it would be if a conversion that raised still handed over the
\* title of its data
Converted_titled(data, conv) ==
    [failed |-> FALSE,
     lines |-> IF conv.raised THEN <<>> ELSE conv.lines,
     characters |-> IF conv.raised THEN {} ELSE conv.characters,
     title |-> Get(data, K_title, JNull)]

\* conv: what _convert_scriptdle_data made of data, an object
Converted(data, conv) ==
    IF conv.raised THEN ChunkFailed
    ELSE [failed |-> FALSE, lines |-> conv.lines, characters |-> conv.characters,
          title |-> Get(data, K_title, JNull)]

\* "if data:" and what follows it in the try block
WithData(p, data) ==
    IF Truthy(data) THEN Converted(data, convert_scriptdle_data(p, data)) ELSE ChunkFailed

\* What the body of the try block makes of response k: failed when an
\* exception left it or the response did not parse, else the chunk's lines,
\* characters and data.get("title"). Response 0 is response.text = None, on
\* which json.loads and re.search raise TypeError.
ChunkResult(p, k) ==
    IF k = 0 THEN ChunkFailed ELSE WithData(p, parse_json_response(p, Responses[k]))

\* ChunkResult for every response, for parser p
ChunkResults(p) == [k \in 0..Len(Responses) |-> ChunkResult(p, k)]

(***************************************************************************)
(* _slugify, sorted(), and the Scriptdle a parser returns                  *)
(***************************************************************************)
\* the characters of the model in code point order
CodePoints ==
    <<"\t", "\n", "\r", " ", "\"", "'", ",", "-", ".">>
    \o <<"0","1","2","3","4","5","6","7","8","9">> \o <<":">>
    \o Uppers \o <<"[", "]", "_", BACKQUOTE>> \o Lowers \o <<"{", "}", NBSP>>

Ord(c) == CHOOSE n \in 1..Len(CodePoints) : CodePoints[n] = c

\* a <= b for Python strings
RECURSIVE StrLeq(_, _)
StrLeq(a, b) ==
    IF a = <<>> THEN TRUE
    ELSE IF b = <<>> THEN FALSE
    ELSE IF Head(a) = Head(b) THEN StrLeq(Tail(a), Tail(b))
    ELSE Ord(Head(a)) < Ord(Head(b))

\* sorted(S) for a set of strings
RECURSIVE Sorted(_)
Sorted(S) ==
    IF S = {} THEN <<>>
    ELSE LET m == CHOOSE x \in S : \A y \in S : StrLeq(x, y)
         IN  <<m>> \o Sorted(S \ {m})

\* re.sub(r'[\s_]+', '-', text)
RECURSIVE DashSpaces(_)
DashSpaces(s) ==
    IF s = <<>> THEN <<>>
    ELSE IF Head(s) \in Whitespace \cup {"_"}
         THEN IF Len(s) > 1 /\ s[2] \in Whitespace \cup {"_"}
              THEN DashSpaces(Tail(s)) ELSE <<"-">> \o DashSpaces(Tail(s))
         ELSE <<Head(s)>> \o DashSpaces(Tail(s))

\* re.sub(r'-+', '-', text)
RECURSIVE CollapseDashes(_)
CollapseDashes(s) ==
    IF s = <<>> THEN <<>>
    ELSE IF Head(s) = "-" /\ Len(s) > 1 /\ s[2] = "-" THEN CollapseDashes(Tail(s))
    ELSE <<Head(s)>> \o CollapseDashes(Tail(s))

RECURSIVE StripDashes(_)
StripDashes(s) ==
    IF s # <<>> /\ Head(s) = "-" THEN StripDashes(Tail(s))
    ELSE IF s # <<>> /\ s[Len(s)] = "-" THEN StripDashes(SubSeq(s, 1, Len(s) - 1))
    ELSE s

\* _slugify(text) for a string
slugify(text) ==
    LET dashed == DashSpaces(Lower(text))
        kept == SelectSeq(dashed, LAMBDA c : IsLower(c) \/ c \in Digits \/ c = "-")
    IN  StripDashes(CollapseDashes(kept))

\* the last alternative of the title: Path(source_file).stem if source_file
\* else "" (llm_text), source_file (llm_vision), "Transcript" (llm_transcript);
\* source_file keeps its default ""
DefaultTitle(p) ==
    IF p = "transcript" THEN JStr(<<"T","r","a","n","s","c","r","i","p","t">>)
    ELSE JStr(<<>>)

\* title or detected_title
TitleOrDetected(t, dt) == Or(t, dt)

\* whether _slugify runs: not movie_id and (title or detected_title)
SlugNeeded(mid, t, dt) == mid = <<>> /\ Truthy(TitleOrDetected(t, dt))

\* The end of a parser raises: _slugify calls .lower() on a value that is no
\* string (AttributeError), or Scriptdle's title, a pydantic str field, is
\* given one (ValidationError).
ReturnFails(p, mid, t, dt) ==
    \/ SlugNeeded(mid, t, dt) /\ TitleOrDetected(t, dt).t # "str"
    \/ Or(TitleOrDetected(t, dt), DefaultTitle(p)).t # "str"

\* Scriptdle(id=..., title=..., year=year, characters=sorted(all_characters),
\* lines=all_lines); year is handed through and left out
Scriptdle(p, mid, t, dt, characters, lines) ==
    [id |-> IF SlugNeeded(mid, t, dt) THEN slugify(TitleOrDetected(t, dt).s) ELSE mid,
     title |-> Or(TitleOrDetected(t, dt), DefaultTitle(p)).s,
     characters |-> Sorted(characters),
     lines |-> lines]

(***************************************************************************)
(* The chunk loop of the three LLM parsers                                 *)
(***************************************************************************)
MaxChunks == 2

\* all_lines.extend(lines)
ExtendLines(lines, r) == lines \o r.lines

\* all_characters.update(chars)
UpdateCharacters(characters, r) == characters \cup r.characters

\* MergeTitle as it would be if a later chunk's title replaced the first
MergeTitle_overwrite(dt, r) == IF Truthy(r.title) THEN r.title ELSE dt

\* if not detected_title and data.get("title"): detected_title = data["title"]
MergeTitle(dt, r) == IF ~Truthy(dt) /\ Truthy(r.title) THEN r.title ELSE dt

\* the messages that are rate-limit signals
RateLimitSignals == {Msg429, MsgExhausted}

\* what the log keeps of an endpoint exception
ErrorKind(msg) == IF msg \in RateLimitSignals THEN "rate_limit" ELSE "error"

JsonIdle ==
    /\ jpc = "done" /\ jdoc = <<>> /\ jcut = 0 /\ jwrap = "bare" /\ jresult = JNull

Init ==
    /\ JsonIdle /\ ChunkIdle /\ OverlapIdle /\ ShrekIdle /\ LaterIdle
    /\ parser \in Parsers
    /\ arg_title \in {JNull, JStr(<<"X">>)}
    /\ arg_movie_id \in {<<>>, <<"m">>}
    /\ nchunks \in 0..MaxChunks
    /\ chunk_results = ChunkResults(parser)
    /\ pc = "loop"
    /\ chunk_idx = 0
    /\ attempt = 0
    /\ backoff = 0
    /\ events = <<>>
    /\ gen = "none"
    /\ all_lines = <<>>
    /\ all_characters = {}
    /\ detected_title = JStr(<<>>)
    /\ outcomes = <<>>
    /\ result = <<>>

\* StartChunk as it would be if the loop did not wait for the call in hand
StartChunk_unawaited ==
    /\ pc \in {"loop", "call"}
    /\ chunk_idx + (IF pc = "call" THEN 1 ELSE 0) < nchunks
    /\ chunk_idx' = chunk_idx + (IF pc = "call" THEN 1 ELSE 0)
    /\ pc' = "call"
    /\ attempt' = 0
    /\ backoff' = INITIAL_BACKOFF
    /\ events' = <<>>
    /\ gen' = "running"
    /\ UNCHANGED <<parser, arg_title, arg_movie_id, nchunks, chunk_results, all_lines,
                   all_characters, detected_title, outcomes, result>>
    /\ UNCHANGED <<jsonVars, chunkVars, overlapVars, shrekVars, laterVars>>

\* the loop takes the next chunk, builds its prompt and enters
\* client.generate: backoff = INITIAL_BACKOFF, the first attempt
StartChunk ==
    /\ pc = "loop"
    /\ chunk_idx < nchunks
    /\ pc' = "call"
    /\ attempt' = 0
    /\ backoff' = INITIAL_BACKOFF
    /\ events' = <<>>
    /\ gen' = "running"
    /\ UNCHANGED <<parser, arg_title, arg_movie_id, nchunks, chunk_results, chunk_idx, all_lines,
                   all_characters, detected_title, outcomes, result>>
    /\ UNCHANGED <<jsonVars, chunkVars, overlapVars, shrekVars, laterVars>>

\* the endpoint answers: generate returns response.text at once, and the rest
\* of the try block parses, converts and merges it
EndpointReturns ==
    /\ pc = "call"
    /\ \E k \in 0..Len(Responses) :
        LET r == chunk_results[k]
        IN  /\ events' = Append(events, CallEvent("ok"))
            /\ gen' = "returned"
            /\ outcomes' = Append(outcomes, [kind |-> "response", k |-> k])
            /\ IF r.failed
               THEN UNCHANGED <<all_lines, all_characters, detected_title>>
               ELSE /\ all_lines' = ExtendLines(all_lines, r)
                    /\ all_characters' = UpdateCharacters(all_characters, r)
                    /\ detected_title' = MergeTitle(detected_title, r)
    /\ chunk_idx' = chunk_idx + 1
    /\ pc' = "loop"
    /\ UNCHANGED <<parser, arg_title, arg_movie_id, nchunks, chunk_results, attempt, backoff, result>>
    /\ UNCHANGED <<jsonVars, chunkVars, overlapVars, shrekVars, laterVars>>

\* the endpoint raises a rate-limit signal on an attempt that may be retried:
\* generate sleeps, doubles the backoff and goes round
EndpointRetried ==
    /\ pc = "call"
    /\ \E msg \in ErrorMessages :
        /\ IsRateLimit(msg)
        /\ MayRetry(attempt)
        /\ events' = events \o <<CallEvent(ErrorKind(msg)), SleepEvent(backoff)>>
    /\ backoff' = NextBackoff(backoff)
    /\ attempt' = attempt + 1
    /\ UNCHANGED <<parser, arg_title, arg_movie_id, nchunks, chunk_results, pc, chunk_idx, gen, all_lines,
                   all_characters, detected_title, outcomes, result>>
    /\ UNCHANGED <<jsonVars, chunkVars, overlapVars, shrekVars, laterVars>>

\* the endpoint raises and generate re-raises; the loop's "except Exception"
\* logs the error and goes on to the next chunk
EndpointRaised ==
    /\ pc = "call"
    /\ \E msg \in ErrorMessages :
        /\ ~(IsRateLimit(msg) /\ MayRetry(attempt))
        /\ events' = Append(events, CallEvent(ErrorKind(msg)))
        /\ outcomes' = Append(outcomes, [kind |-> ErrorKind(msg), k |-> 0])
    /\ gen' = "raised"
    /\ chunk_idx' = chunk_idx + 1
    /\ pc' = "loop"
    /\ UNCHANGED <<parser, arg_title, arg_movie_id, nchunks, chunk_results, attempt, backoff, all_lines,
                   all_characters, detected_title, result>>
    /\ UNCHANGED <<jsonVars, chunkVars, overlapVars, shrekVars, laterVars>>

\* after the last chunk: the Scriptdle is built and returned
Return ==
    /\ pc = "loop"
    /\ chunk_idx = nchunks
    /\ ~ReturnFails(parser, arg_movie_id, arg_title, detected_title)
    /\ result' = Scriptdle(parser, arg_movie_id, arg_title, detected_title,
                           all_characters, all_lines)
    /\ pc' = "returned"
    /\ UNCHANGED <<parser, arg_title, arg_movie_id, nchunks, chunk_results, chunk_idx, attempt, backoff,
                   events, gen, all_lines, all_characters, detected_title, outcomes>>
    /\ UNCHANGED <<jsonVars, chunkVars, overlapVars, shrekVars, laterVars>>

\* after the last chunk: building the result raises, and the parser with it
ReturnRaises ==
    /\ pc = "loop"
    /\ chunk_idx = nchunks
    /\ ReturnFails(parser, arg_movie_id, arg_title, detected_title)
    /\ pc' = "raised"
    /\ UNCHANGED <<parser, arg_title, arg_movie_id, nchunks, chunk_results, chunk_idx, attempt, backoff,
                   events, gen, all_lines, all_characters, detected_title, outcomes, result>>
    /\ UNCHANGED <<jsonVars, chunkVars, overlapVars, shrekVars, laterVars>>

Next ==
    \/ StartChunk
    \/ EndpointReturns
    \/ EndpointRetried
    \/ EndpointRaised
    \/ Return
    \/ ReturnRaises

Spec == Init /\ [][Next]_vars

(***************************************************************************)
(* Properties of the LLM parsers and of GeminiClient.generate              *)
(***************************************************************************)
\* the characters that speak a line of the result
Speakers(lines) == {lines[j].character : j \in 1..Len(lines)}

\* C1: in every Scriptdle an LLM parser returns, characters is exactly the
\* sorted list of the distinct character values of lines.
C1_CharactersAreTheSpeakers ==
    pc = "returned" => result.characters = Sorted(Speakers(result.lines))

\* the sleeps of the generate call in hand, in order
RECURSIVE SleepsOf(_)
SleepsOf(evs) ==
    IF evs = <<>> THEN <<>>
    ELSE IF Head(evs).ev = "sleep" THEN <<Head(evs).secs>> \o SleepsOf(Tail(evs))
    ELSE SleepsOf(Tail(evs))

\* how many endpoint calls the first j events hold
CallsUpTo(evs, j) == Cardinality({n \in 1..j : evs[n].ev = "call"})

IsPrefix(a, b) == Len(a) <= Len(b) /\ \A n \in 1..Len(a) : a[n] = b[n]

\* C4: a rate-limited endpoint call is retried after sleeps of 60, 120, 240,
\* 300 seconds; a generate call makes at most 5 endpoint calls; a successful
\* call ends it at once; the 5th rate-limited call raises with no sleep.
C4_RateLimitBackoff ==
    /\ IsPrefix(SleepsOf(events), <<60, 120, 240, 300>>)
    /\ CallsUpTo(events, Len(events)) <= 5
    /\ \A j \in 1..Len(events) :
        /\ (events[j].ev = "call" /\ events[j].out = "ok")
             => j = Len(events) /\ gen = "returned"
        /\ (events[j].ev = "call" /\ events[j].out = "rate_limit"
              /\ CallsUpTo(events, j) = 5)
             => j = Len(events) /\ gen = "raised"
        /\ (events[j].ev = "call" /\ events[j].out = "rate_limit"
              /\ CallsUpTo(events, j) < 5)
             => j < Len(events) /\ events[j + 1].ev = "sleep"
        /\ (events[j].ev = "sleep") => j < Len(events) \/ gen = "running"

\* a generate call that slept 60, 120, 240 and 300 seconds and raised on its
\* fifth rate-limited call
C4_Witness ==
    /\ gen = "raised"
    /\ SleepsOf(events) = <<60, 120, 240, 300>>
    /\ events[Len(events)] = CallEvent("rate_limit")
    /\ CallsUpTo(events, Len(events)) = 5

\* C5: an endpoint call that fails with anything but a rate-limit signal is
\* the last thing its generate call does: no sleep and no call follow it, and
\* the call has raised, on whatever attempt it happens.
C5_OtherErrorsPropagate ==
    \A j \in 1..Len(events) :
        (events[j].ev = "call" /\ events[j].out = "error")
            => /\ j = Len(events)
               /\ gen = "raised"
               /\ outcomes # <<>> /\ outcomes[Len(outcomes)].kind = "error"

\* another error raised on the third attempt, after two rate-limited ones
C5_Witness ==
    /\ gen = "raised"
    /\ Len(events) = 5
    /\ events[5] = CallEvent("error")
    /\ SleepsOf(events) = <<60, 120>>

\* whether chunk outcome o added to the result
Contributed(o) == o.kind = "response" /\ ~chunk_results[o.k].failed

\* the lines of the chunks that succeeded, chunk after chunk
RECURSIVE ExpectedLines(_)
ExpectedLines(outs) ==
    IF outs = <<>> THEN <<>>
    ELSE (IF Contributed(Head(outs)) THEN chunk_results[Head(outs).k].lines ELSE <<>>)
         \o ExpectedLines(Tail(outs))

\* the union of the character sets of the chunks that succeeded
ExpectedCharacters(outs) ==
    UNION {chunk_results[outs[j].k].characters :
              j \in {n \in 1..Len(outs) : Contributed(outs[n])}}

\* the chunks that succeeded and reported a title that is not empty
Titled(outs) ==
    {j \in 1..Len(outs) : Contributed(outs[j]) /\ Truthy(chunk_results[outs[j].k].title)}

\* the title of the lowest-indexed of them
ExpectedTitle(outs) ==
    IF Titled(outs) = {} THEN JStr(<<>>)
    ELSE chunk_results[outs[CHOOSE j \in Titled(outs) : \A n \in Titled(outs) : j <= n].k].title

\* C6: whatever the chunks' outcomes, every chunk is attempted once and the
\* parser returns a Scriptdle with the lines of all chunks that succeeded.
C6_RunNeverAborts ==
    /\ pc # "raised"
    /\ pc = "returned" => /\ Len(outcomes) = nchunks
                          /\ result.lines = ExpectedLines(outcomes)

\* C7: the merged lines are the successful chunks' lines in chunk order, the
\* character set is the union over those chunks, and the detected title is
\* that of the lowest-indexed chunk that reported one, never replaced later.
C7_MergeInChunkOrder ==
    pc \in {"loop", "call", "returned", "raised"} =>
        /\ all_lines = ExpectedLines(outcomes)
        /\ all_characters = ExpectedCharacters(outcomes)
        /\ detected_title = ExpectedTitle(outcomes)
        /\ pc = "returned" => result.lines = all_lines

\* a run returned after two chunks that both gave lines and different titles
C7_Witness ==
    /\ pc = "returned"
    /\ Len(outcomes) = 2
    /\ Contributed(outcomes[1]) /\ Contributed(outcomes[2])
    /\ Truthy(chunk_results[outcomes[1].k].title)
    /\ Truthy(chunk_results[outcomes[2].k].title)
    /\ chunk_results[outcomes[1].k].title # chunk_results[outcomes[2].k].title
    /\ chunk_results[outcomes[1].k].lines # chunk_results[outcomes[2].k].lines

(***************************************************************************)
(* _chunk_text                                                             *)
(***************************************************************************)
\* the alternatives of the scene-heading pattern \n\s*(INT\.|EXT\.)
SceneHeads == {<<"I", "N", "T", ".">>, <<"E", "X", "T", ".">>}

RECURSIVE PastSpaces(_, _)
\* \s* from 1-based position p: the first position holding no whitespace
PastSpaces(s, p) ==
    IF p <= Len(s) /\ s[p] \in Whitespace THEN PastSpaces(s, p + 1) ELSE p

\* the pattern matches at 1-based position p: the position after the match,
\* 0 when there is no match at p
SceneMatchEnd(s, p) ==
    IF s[p] = "\n" /\ \E h \in SceneHeads : OccursAt(s, h, PastSpaces(s, p + 1))
    THEN PastSpaces(s, p + 1) + 4
    ELSE 0

RECURSIVE LastSceneMatch(_, _, _)
\* "for match in re.finditer(...): scene_match = match" scanning from 1-based
\* position p: scene_match.start() (0-based) of the last match, last when the
\* scan finds no further one (-1: scene_match is None)
LastSceneMatch(s, p, last) ==
    IF p > Len(s) THEN last
    ELSE IF SceneMatchEnd(s, p) > 0
         THEN LastSceneMatch(s, SceneMatchEnd(s, p), p - 1)
         ELSE LastSceneMatch(s, p + 1, last)

MinChunk(size) == size \div 2
SearchWindow(size) == Min(500, size \div 4)
SearchStart(end_pos, pos, size) == Max(end_pos - SearchWindow(size), pos + MinChunk(size))

\* where a chunk that does not reach the end of the text is cut: before the
\* last scene heading of the search window, else at its last paragraph break
\* (unless that break opens the window), else at end_pos
BoundaryCut(search_text, search_start, end_pos) ==
    IF LastSceneMatch(search_text, 1, -1) >= 0
    THEN [end_pos |-> search_start + LastSceneMatch(search_text, 1, -1), how |-> "scene"]
    ELSE IF RFind(search_text, <<"\n", "\n">>) > 0
         THEN [end_pos |-> search_start + RFind(search_text, <<"\n", "\n">>), how |-> "para"]
         ELSE [end_pos |-> end_pos, how |-> "hard"]

\* end_pos of the chunk that starts at pos
CutFrom(text, pos, size, end_pos) ==
    IF end_pos < Len(text)
    THEN BoundaryCut(Slice(text, SearchStart(end_pos, pos, size), end_pos),
                     SearchStart(end_pos, pos, size), end_pos)
    ELSE [end_pos |-> end_pos, how |-> "end"]

Cut(text, pos, size) == CutFrom(text, pos, size, Min(pos + size, Len(text)))

\* "if chunk: chunks.append(chunk)"
AppendChunk(cs, chunk) == IF chunk # <<>> THEN Append(cs, chunk) ELSE cs

\* NextPos as it would be with the overlap's sign slipped
NextPos_plus(end_pos, pos, ov, size) == Max(end_pos + ov, pos + MinChunk(size))

\* current_pos of the next iteration
NextPos(end_pos, pos, ov, size) == Max(end_pos - ov, pos + MinChunk(size))

\* the texts, chunk sizes and overlaps tried: a text is a run of pieces (a
\* word, a paragraph break, a scene heading)
Pieces == {<<"a", "b", "c", "d", "e", "f", "g", "h">>,
           <<"\n", "\n">>,
           <<"\n", "I", "N", "T", ".">>}
MaxPieces == 5
ChunkSizes == {1, 5, 12, 21}
Overlaps == {0, 2, 30}
MaxIter == 6

ChunkInit ==
    /\ JsonIdle /\ LlmIdle /\ OverlapIdle /\ ShrekIdle /\ LaterIdle
    /\ cpc = "start"
    /\ ctext \in {Flatten(ps) : ps \in SeqsUpTo(Pieces, MaxPieces)}
    /\ chunk_size \in ChunkSizes
    /\ overlap \in Overlaps
    /\ current_pos = 0
    /\ chunks = <<>>
    /\ spans = <<>>
    /\ iterations = 0

\* "if len(text) <= chunk_size: return [text]"
ReturnWholeText ==
    /\ cpc = "start"
    /\ Len(ctext) <= chunk_size
    /\ chunks' = <<ctext>>
    /\ cpc' = "done"
    /\ UNCHANGED <<ctext, chunk_size, overlap, current_pos, spans, iterations>>
    /\ UNCHANGED <<jsonVars, llmVars, overlapVars, shrekVars, laterVars>>

\* chunks = [], current_pos = 0
EnterLoop ==
    /\ cpc = "start"
    /\ Len(ctext) > chunk_size
    /\ chunks' = <<>>
    /\ current_pos' = 0
    /\ cpc' = "loop"
    /\ UNCHANGED <<ctext, chunk_size, overlap, spans, iterations>>
    /\ UNCHANGED <<jsonVars, llmVars, overlapVars, shrekVars, laterVars>>

\* the body of the while loop for the cut it computed
PassBody(cut) ==
    /\ chunks' = AppendChunk(chunks, Strip(Slice(ctext, current_pos, cut.end_pos)))
    /\ spans' = Append(spans, [from |-> current_pos, to |-> cut.end_pos, how |-> cut.how])
    /\ iterations' = iterations + 1
    /\ IF cut.end_pos >= Len(ctext)
       THEN cpc' = "done" /\ UNCHANGED current_pos
       ELSE /\ cpc' = "loop"
            /\ current_pos' = NextPos(cut.end_pos, current_pos, overlap, chunk_size)

\* one test of "while current_pos < len(text)" and the pass it admits
LoopPass ==
    /\ cpc = "loop"
    /\ iterations < MaxIter
    /\ IF current_pos < Len(ctext)
       THEN PassBody(Cut(ctext, current_pos, chunk_size))
       ELSE cpc' = "done" /\ UNCHANGED <<current_pos, chunks, spans, iterations>>
    /\ UNCHANGED <<ctext, chunk_size, overlap>>
    /\ UNCHANGED <<jsonVars, llmVars, overlapVars, shrekVars, laterVars>>

ChunkNext == ReturnWholeText \/ EnterLoop \/ LoopPass

SpecChunk == ChunkInit /\ [][ChunkNext]_vars

\* the part of the k-th slice that the slices before it did not cover
Fresh(text, sp, k) ==
    Slice(text, IF k = 1 THEN sp[k].from ELSE Max(sp[k].from, sp[k - 1].to), sp[k].to)

\* the slices concatenated with their overlaps removed
Uncovered(text, sp) == Flatten([k \in 1..Len(sp) |-> Fresh(text, sp, k)])

RECURSIVE TrimmedFrom(_, _, _)
\* the slices from the k-th on, trimmed, the blank ones left out
TrimmedFrom(text, sp, k) ==
    IF k > Len(sp) THEN <<>>
    ELSE AppendChunk(<<>>, Strip(Slice(text, sp[k].from, sp[k].to)))
         \o TrimmedFrom(text, sp, k + 1)

RECURSIVE Reassembles(_, _, _)
\* rest is the concatenation of the chunks from the k-th on, each but the
\* first of the list shortened by some leading region
Reassembles(cs, k, rest) ==
    IF k > Len(cs) THEN rest = <<>>
    ELSE \E d \in (IF k = 1 THEN {0} ELSE 0..Len(cs[k])) :
            /\ IsPrefix(SubSeq(cs[k], d + 1, Len(cs[k])), rest)
            /\ Reassembles(cs, k + 1, SubSeq(rest, Len(cs[k]) - d + 1, Len(rest)))

C19_ChunkLoopProgresses ==
    /\ [][(cpc = "loop" /\ cpc' = "loop") =>
            /\ current_pos' > current_pos
            /\ current_pos' <= spans'[Len(spans')].to]_vars
    /\ [](cpc = "done" /\ spans # <<>> => spans[Len(spans)].to = Len(ctext))

(***************************************************************************)
(* normalize_for_comparison, calculate_overlap                             *)
(***************************************************************************)
\* the regex class \w
IsWordChar(c) == IsLower(c) \/ IsUpper(c) \/ c \in Digits \/ c = "_"

\* re.sub(r"[^\w\s']", ' ', text)
PunctToSpace(s) ==
    [i \in 1..Len(s) |->
        IF IsWordChar(s[i]) \/ s[i] \in Whitespace \/ s[i] = "'" THEN s[i] ELSE " "]

RECURSIVE WordLen(_)
\* the length of the run of non-whitespace that opens s
WordLen(s) == IF s = <<>> \/ Head(s) \in Whitespace THEN 0 ELSE 1 + WordLen(Tail(s))

RECURSIVE SplitWords(_)
\* str.split() of a string with no leading whitespace
SplitWords(s) ==
    IF s = <<>> THEN <<>>
    ELSE <<SubSeq(s, 1, WordLen(s))>> \o SplitWords(LStrip(SubSeq(s, WordLen(s) + 1, Len(s))))

\* str.split()
Split(s) == SplitWords(LStrip(s))

normalize_for_comparison(text) == JoinWith(Split(PunctToSpace(Lower(text))), <<" ">>)

\* lines[::step]
EveryNth(lines, step) ==
    [k \in 1..((Len(lines) + step - 1) \div step) |-> lines[(k - 1) * step + 1]]

\* the lines the loop examines
SampleLines(lines, n) ==
    IF Len(lines) > n * 3
    THEN SubSeq(EveryNth(lines, Len(lines) \div n), 1,
                Min(n, Len(EveryNth(lines, Len(lines) \div n))))
    ELSE lines

\* max(3, int(len(words) * 0.6))
MinMatchWords(words) == Max(3, (Len(words) * 6) \div 10)

\* ' '.join(words[i:i + n])
Phrase(words, i, n) == JoinWith(SubSeq(words, i + 1, i + n), <<" ">>)

\* the values of i at which the sliding window finds its phrase in the script
Hits(words, script_normalized) ==
    {i \in 0..(Len(words) - MinMatchWords(words)) :
        Contains(script_normalized, Phrase(words, i, MinMatchWords(words)))}

\* SkipShort as it would be with a threshold below that of total_checked
SkipShort_five(line_normalized) == Len(line_normalized) < 5

\* "if len(line_normalized) < 10: continue"
SkipShort(line_normalized) == Len(line_normalized) < 10

\* "if len(words) < 3: continue"
SkipFewWords(words) == Len(words) < 3

\* found, for one sample line
Found(line_normalized, script_normalized) ==
    /\ ~SkipShort(line_normalized)
    /\ ~SkipFewWords(Split(line_normalized))
    /\ Hits(Split(line_normalized), script_normalized) # {}

\* the pair appended to sample_matches for the phrase found at 0-based idx
SampleMatch(line, script_normalized, search_phrase, idx) ==
    [line    |-> Slice(line, 0, 80),
     context |-> <<".", ".", ".">>
                 \o Slice(script_normalized, Max(0, idx - 20),
                          Min(Len(script_normalized), idx + Len(search_phrase) + 20))
                 \o <<".", ".", ".">>]

\* the first phrase of the line that the script holds
FirstPhrase(words, script_normalized) ==
    Phrase(words,
           CHOOSE i \in Hits(words, script_normalized) :
               \A j \in Hits(words, script_normalized) : i <= j,
           MinMatchWords(words))

\* sample_matches after a line that was found
WithSampleMatch(ms, line, script_normalized, search_phrase) ==
    IF Len(ms) < 10
    THEN Append(ms, SampleMatch(line, script_normalized, search_phrase,
                                Find(script_normalized, search_phrase)))
    ELSE ms

\* the list comprehension of total_checked
CountedLines(lines) ==
    {k \in 1..Len(lines) : Len(normalize_for_comparison(lines[k])) >= 10}

\* overlap_score as the fraction <<numerator, denominator>>
OverlapScore(matched_lines, total_checked) ==
    IF total_checked > 0 THEN <<matched_lines, total_checked>> ELSE <<0, 1>>

ValidationResult(matched_lines, total_checked, ms) ==
    [script_path          |-> <<>>,
     overlap_score        |-> OverlapScore(matched_lines, total_checked),
     matched_lines        |-> matched_lines,
     total_subtitle_lines |-> total_checked,
     sample_matches       |-> ms]

\* the subtitle lines, scripts and sample sizes tried
SubtitlePool == {<<"I", "'", "l", "l", " ", "b", "e", " ", "f", "i", "n", "e", ",", " ", "M", "o", "m", ".">>,
                 <<"A", "b", "s", "o", "l", "u", "t", "e", "l", "y", " ", "f", "a", "n", "t", "a", "s", "t", "i", "c">>,
                 <<"H", "i", ".">>,
                 <<"G", "o", " ", "o", "n", " ", "n", "o", "w">>,
                 <<"Y", "o", "u", " ", "s", "h", "a", "l", "l", " ", "n", "o", "t", " ", "p", "a", "s", "s", " ", "h", "e", "r", "e", " ", "t", "o", "d", "a", "y">>}
ScriptPool == {<<"I", "'", "l", "l", " ", "b", "e", " ", "f", "i", "n", "e", ",", " ", "M", "o", "m", ".", "\n", "A", "b", "s", "o", "l", "u", "t", "e", "l", "y", " ", "f", "a", "n", "t", "a", "s", "t", "i", "c", "\n", "G", "o", " ", "o", "n", " ", "n", "o", "w", "\n", "H", "i", ".">>,
               <<"H", "e", " ", "s", "a", "i", "d", " ", "I", "'", "l", "l", " ", "b", "e", " ", "f", "i", "n", "e", ".", " ", "S", "h", "a", "l", "l", " ", "n", "o", "t", " ", "p", "a", "s", "s", "!">>}
SampleSizes == {1, 100}
MaxSubs == 4

OverlapInit ==
    /\ JsonIdle /\ LlmIdle /\ ChunkIdle /\ ShrekIdle /\ LaterIdle
    /\ opc = "start"
    /\ subtitle_lines \in SeqsUpTo(SubtitlePool, MaxSubs)
    /\ script_text \in ScriptPool
    /\ sample_size \in SampleSizes
    /\ sample_lines = <<>>
    /\ line_idx = 0
    /\ matched_count = 0
    /\ matched = {}
    /\ sample_matches = <<>>
    /\ validation = <<>>

\* the sampling, matched_count = 0, sample_matches = []
TakeSample ==
    /\ opc = "start"
    /\ sample_lines' = SampleLines(subtitle_lines, sample_size)
    /\ matched_count' = 0
    /\ sample_matches' = <<>>
    /\ opc' = "loop"
    /\ UNCHANGED <<subtitle_lines, script_text, sample_size, line_idx, matched, validation>>
    /\ UNCHANGED <<jsonVars, llmVars, chunkVars, shrekVars, laterVars>>

\* one pass of "for line in sample_lines"
ExamineLine ==
    /\ opc = "loop"
    /\ line_idx < Len(sample_lines)
    /\ line_idx' = line_idx + 1
    /\ IF Found(normalize_for_comparison(sample_lines[line_idx + 1]),
                normalize_for_comparison(script_text))
       THEN /\ matched_count' = matched_count + 1
            /\ matched' = matched \cup {line_idx + 1}
            /\ sample_matches' =
                  WithSampleMatch(sample_matches, sample_lines[line_idx + 1],
                      normalize_for_comparison(script_text),
                      FirstPhrase(Split(normalize_for_comparison(sample_lines[line_idx + 1])),
                                  normalize_for_comparison(script_text)))
       ELSE UNCHANGED <<matched_count, matched, sample_matches>>
    /\ UNCHANGED <<opc, subtitle_lines, script_text, sample_size, sample_lines, validation>>
    /\ UNCHANGED <<jsonVars, llmVars, chunkVars, shrekVars, laterVars>>

\* total_checked, overlap_score and the ValidationResult returned
ReturnValidation ==
    /\ opc = "loop"
    /\ line_idx = Len(sample_lines)
    /\ validation' = ValidationResult(matched_count, Cardinality(CountedLines(sample_lines)),
                                      sample_matches)
    /\ opc' = "done"
    /\ UNCHANGED <<subtitle_lines, script_text, sample_size, sample_lines, line_idx,
                   matched_count, matched, sample_matches>>
    /\ UNCHANGED <<jsonVars, llmVars, chunkVars, shrekVars, laterVars>>

OverlapNext == TakeSample \/ ExamineLine \/ ReturnValidation

SpecOverlap == OverlapInit /\ [][OverlapNext]_vars

\* C9: matched_lines never exceeds totalChecked; overlap_score is
\* matched_lines / totalChecked, within [0, 1], and 0 when totalChecked is 0;
\* totalChecked counts exactly the sampled lines whose normalized length is at
\* least 10, and every line counted as matched is one of them.
C9_ScoreWithinBounds ==
    opc = "done" =>
        /\ validation.matched_lines = Cardinality(matched)
        /\ matched \subseteq CountedLines(sample_lines)
        /\ validation.total_subtitle_lines = Cardinality(CountedLines(sample_lines))
        /\ validation.matched_lines <= validation.total_subtitle_lines
        /\ validation.overlap_score[1] >= 0
        /\ validation.overlap_score[2] > 0
        /\ validation.overlap_score[1] <= validation.overlap_score[2]
        /\ IF validation.total_subtitle_lines = 0
           THEN validation.overlap_score[1] = 0
           ELSE validation.overlap_score =
                    <<validation.matched_lines, validation.total_subtitle_lines>>

\* C9: a run with a matched line, a counted line that did not match and a
\* line too short to count
C9_Witness ==
    /\ opc = "done"
    /\ validation.matched_lines >= 1
    /\ validation.total_subtitle_lines > validation.matched_lines
    /\ Len(sample_lines) > validation.total_subtitle_lines

\* C10: when every subtitle line is drawn verbatim from the script and at
\* least one is counted in totalChecked, overlap_score is 1.0.
C10_SelfOverlapIsPerfect ==
    (/\ opc = "done"
     /\ \A k \in 1..Len(subtitle_lines) : Contains(script_text, subtitle_lines[k])
     /\ validation.total_subtitle_lines >= 1)
    => validation.overlap_score[1] = validation.overlap_score[2]

(***************************************************************************)
(* parse_shrek_text                                                        *)
(***************************************************************************)
\* the character references html.unescape resolves, of which the model keeps
\* these two
Entities == {[ref |-> <<"&", "n", "b", "s", "p", ";">>, char |-> NBSP],
             [ref |-> <<"&", "a", "m", "p", ";">>, char |-> "&"]}

RECURSIVE HtmlUnescape(_)
\* html.unescape(line)
HtmlUnescape(s) ==
    IF s = <<>> THEN <<>>
    ELSE IF \E e \in Entities : OccursAt(s, e.ref, 1)
         THEN LET e == CHOOSE x \in Entities : OccursAt(s, x.ref, 1)
              IN  <<e.char>> \o HtmlUnescape(SubSeq(s, Len(e.ref) + 1, Len(s)))
         ELSE <<Head(s)>> \o HtmlUnescape(Tail(s))

\* the class [A-Z0-9 ]
IsCueChar(c) == IsUpper(c) \/ c \in Digits \/ c = " "

RECURSIVE CueRun(_)
\* the length of the run of [A-Z0-9 ] characters that opens s
CueRun(s) == IF s # <<>> /\ IsCueChar(Head(s)) THEN 1 + CueRun(Tail(s)) ELSE 0

\* re.match(r'^([A-Z0-9 ]+): (.*)', line) succeeds
TranscriptMatch(line) == CueRun(line) >= 1 /\ OccursAt(line, <<":", " ">>, CueRun(line) + 1)

RECURSIVE UpToNewline(_)
\* what .* takes: the characters before the first newline
UpToNewline(s) == IF s = <<>> \/ Head(s) = "\n" THEN <<>> ELSE <<Head(s)>> \o UpToNewline(Tail(s))

\* match.group(1), match.group(2)
Group1(line) == SubSeq(line, 1, CueRun(line))
Group2(line) == UpToNewline(SubSeq(line, CueRun(line) + 3, Len(line)))

\* str.isupper(): a cased character, and no lower-case one
IsUpperStr(s) ==
    /\ \E i \in 1..Len(s) : IsUpper(s[i])
    /\ \A i \in 1..Len(s) : ~IsLower(s[i])

NotSpeakers == {<<"S", "C", "E", "N", "E">>, <<"I", "N", "T">>, <<"E", "X", "T">>}

movie_title == <<"S", "h", "r", "e", "k">>

Record(char, text) == [movie |-> movie_title, character |-> char, text |-> text]

\* transcript mode: script_data after one line of the file
TranscriptStep(data, line) ==
    IF line = <<>> THEN data
    ELSE IF ~TranscriptMatch(HtmlUnescape(line)) THEN data
    ELSE IF Strip(Group1(HtmlUnescape(line))) \in NotSpeakers THEN data
    ELSE IF ~IsUpperStr(Strip(Group1(HtmlUnescape(line)))) THEN data
    ELSE Append(data, Record(Strip(Group1(HtmlUnescape(line))),
                             Strip(Group2(HtmlUnescape(line)))))

\* len(line) - len(line.lstrip())
Indent(line) == Len(line) - Len(LStrip(line))

\* the character-cue test of screenplay mode
IsCue(line, stripped) ==
    /\ Indent(line) > 20
    /\ IsUpperStr(stripped)
    /\ ~Contains(stripped, <<" ", "-", " ">>)
    /\ Len(stripped) < 50

RECURSIVE SpacesBefore(_, _)
\* the start (0-based) of the whitespace run that ends before 0-based q
SpacesBefore(s, q) == IF q > 0 /\ s[q] \in Whitespace THEN SpacesBefore(s, q - 1) ELSE q

\* re.sub(r'\s*\(.*\)', '', stripped): what lies between the first "(" (with
\* the whitespace before it) and the last ")" goes
DropParenthetical(s) ==
    IF Find(s, <<"(">>) >= 0 /\ RFind(s, <<")">>) > Find(s, <<"(">>)
    THEN Slice(s, 0, SpacesBefore(s, Find(s, <<"(">>)))
         \o Slice(s, RFind(s, <<")">>) + 1, Len(s))
    ELSE s

\* HasSpeech as it would be without the test of current_dialogue
HasSpeech_char(char, dialogue) == char # <<>>

\* "if current_char and current_dialogue"
HasSpeech(char, dialogue) == char # <<>> /\ dialogue # <<>>

\* the record a flush appends
Flushed(data, char, dialogue) ==
    IF HasSpeech(char, dialogue)
    THEN Append(data, Record(char, JoinWith(dialogue, <<" ">>)))
    ELSE data

\* AfterFlush as it would be without "current_dialogue = []"
AfterFlush_keep(char, dialogue) == dialogue

\* current_dialogue after the flush at a cue
AfterFlush(char, dialogue) == IF HasSpeech(char, dialogue) THEN <<>> ELSE dialogue

IsParenthetical(stripped) == Head(stripped) = "(" /\ stripped[Len(stripped)] = ")"

\* the lines of the files tried, per mode
TranscriptPool ==
    {<<"B", "O", "B", ":", " ", "h", "i", "\n">>,
     <<"B", "O", "B", ":", " ", "&", "n", "b", "s", "p", ";", "\n">>,
     <<"S", "C", "E", "N", "E", ":", " ", "x", "\n">>,
     <<"B", "o", "b", ":", " ", "h", "i", "\n">>,
     <<"\n">>,
     <<"1", "2", ":", " ", "x", "\n">>,
     <<"A", "L", " ", "B", ":", " ", "a", " ", "&", "a", "m", "p", ";", " ", "b", "\n">>}
ScreenplayPool ==
    {Repeat(" ", 40) \o <<"S", "H", "R", "E", "K", "\n">>,
     Repeat(" ", 25) \o <<"A", "L", " ", "(", "V", ".", "O", ".", ")", "\n">>,
     Repeat(" ", 25) \o <<"O", "n", "c", "e", " ", "u", "p", "o", "n", " ", "a", " ", "t", "i", "m", "e", ".", "\n">>,
     Repeat(" ", 15) \o <<"H", "i", " ", "t", "h", "e", "r", "e", ".", "\n">>,
     Repeat(" ", 15) \o <<"(", "b", "e", "a", "t", ")", "\n">>,
     <<"I", "N", "T", ".", " ", "C", "A", "S", "T", "L", "E", " ", "-", " ", "N", "I", "G", "H", "T", "\n">>,
     Repeat(" ", 25) \o <<"(", "V", ".", "O", ".", ")", "\n">>,
     Repeat(" ", 30) \o <<"E", "X", "T", ".", " ", "S", "W", "A", "M", "P", "\n">>,
     <<"\n">>}
LinePool(m) == IF m = "transcript" THEN TranscriptPool ELSE ScreenplayPool
Modes == {"transcript", "screenplay"}
MaxLines == 4

ShrekInit ==
    /\ JsonIdle /\ LlmIdle /\ ChunkIdle /\ OverlapIdle /\ LaterIdle
    /\ spc = "loop"
    /\ mode \in Modes
    /\ file_lines \in SeqsUpTo(LinePool(mode), MaxLines)
    /\ line_no = 0
    /\ current_char = <<>>
    /\ current_dialogue = <<>>
    /\ script_data = <<>>

\* one pass of the transcript loop
ReadTranscriptLine ==
    /\ spc = "loop"
    /\ mode = "transcript"
    /\ line_no < Len(file_lines)
    /\ line_no' = line_no + 1
    /\ script_data' = TranscriptStep(script_data, Strip(file_lines[line_no + 1]))
    /\ UNCHANGED <<spc, mode, file_lines, current_char, current_dialogue>>
    /\ UNCHANGED <<jsonVars, llmVars, chunkVars, overlapVars, laterVars>>

\* the screenplay loop's body for a line that is not blank
ScreenplayStep(line, stripped) ==
    IF IsCue(line, stripped)
    THEN /\ script_data' = Flushed(script_data, current_char, current_dialogue)
         /\ current_dialogue' = AfterFlush(current_char, current_dialogue)
         /\ current_char' = Strip(DropParenthetical(stripped))
    ELSE IF Indent(line) > 10 /\ Indent(line) < 35
              /\ ~IsParenthetical(stripped) /\ current_char # <<>>
         THEN /\ current_dialogue' = Append(current_dialogue, stripped)
              /\ UNCHANGED <<script_data, current_char>>
         ELSE UNCHANGED <<script_data, current_char, current_dialogue>>

\* one pass of the screenplay loop
ReadScreenplayLine ==
    /\ spc = "loop"
    /\ mode = "screenplay"
    /\ line_no < Len(file_lines)
    /\ line_no' = line_no + 1
    /\ IF Strip(file_lines[line_no + 1]) = <<>>
       THEN UNCHANGED <<script_data, current_char, current_dialogue>>
       ELSE ScreenplayStep(file_lines[line_no + 1], Strip(file_lines[line_no + 1]))
    /\ UNCHANGED <<spc, mode, file_lines>>
    /\ UNCHANGED <<jsonVars, llmVars, chunkVars, overlapVars, laterVars>>

\* the end of the file: screenplay mode flushes the speech in hand
ReturnScriptData ==
    /\ spc = "loop"
    /\ line_no = Len(file_lines)
    /\ script_data' = IF mode = "screenplay"
                      THEN Flushed(script_data, current_char, current_dialogue)
                      ELSE script_data
    /\ spc' = "done"
    /\ UNCHANGED <<mode, file_lines, line_no, current_char, current_dialogue>>
    /\ UNCHANGED <<jsonVars, llmVars, chunkVars, overlapVars, laterVars>>

ShrekNext == ReadTranscriptLine \/ ReadScreenplayLine \/ ReturnScriptData

SpecShrek == ShrekInit /\ [][ShrekNext]_vars

\* C2: every dialogue record emitted, by _convert_scriptdle_data and by
\* parse_shrek_text, has a non-empty character and a text that is non-empty
\* after trimming.
C2_NoEmptyRecord ==
    /\ \A k \in 1..Len(script_data) :
          script_data[k].character # <<>> /\ Strip(script_data[k].text) # <<>>
    /\ \A k \in 1..Len(all_lines) :
          all_lines[k].character # <<>> /\ Strip(all_lines[k].text) # <<>>

\* a contiguous run of n of the words, n at least 3 and at least 60% of their
\* number, occurs in the normalized script
RunOccurs(words, script_normalized) ==
    \E n \in 3..Len(words) :
        /\ n * 10 >= Len(words) * 6
        /\ \E i \in 0..(Len(words) - n) : Contains(script_normalized, Phrase(words, i, n))

\* C20: a subtitle line is counted as matched if and only if some contiguous
\* run of its normalized words, at least 3 words long and at least 60% of
\* their number, appears verbatim in the normalized script text.
C20_MatchedIffRunOfSixtyPercent ==
    opc = "done" =>
        \A k \in 1..Len(sample_lines) :
            k \in matched <=> RunOccurs(Split(normalize_for_comparison(sample_lines[k])),
                                        normalize_for_comparison(script_text))

\* the screenplay lines that are character cues, and those accepted as
\* dialogue once a speaker is in hand
CueLines(lines) ==
    {k \in 1..Len(lines) : Strip(lines[k]) # <<>> /\ IsCue(lines[k], Strip(lines[k]))}

DialogueLines(lines) ==
    {k \in 1..Len(lines) :
        /\ Strip(lines[k]) # <<>>
        /\ ~IsCue(lines[k], Strip(lines[k]))
        /\ Indent(lines[k]) > 10 /\ Indent(lines[k]) < 35
        /\ ~IsParenthetical(Strip(lines[k]))}

\* the name a cue line gives its speaker
CueName(line) == Strip(DropParenthetical(Strip(line)))

\* of the dialogue lines dias, those between the cue at k and the next of
\* the cues (or the end)
RunAfter(k, cues, dias) ==
    {d \in dias : d > k /\ \A c \in cues : c > k => d < c}

RECURSIVE StrippedInOrder(_, _)
\* the lines at the positions ks, trimmed, in input order
StrippedInOrder(lines, ks) ==
    IF ks = {} THEN <<>>
    ELSE <<Strip(lines[CHOOSE k \in ks : \A n \in ks : k <= n])>>
         \o StrippedInOrder(lines, ks \ {CHOOSE k \in ks : \A n \in ks : k <= n})

RECURSIVE RecordsFrom(_, _, _, _)
\* one record per cue from line k on that names a speaker and is followed by
\* a run of dialogue lines, in input order
RecordsFrom(lines, k, cues, dias) ==
    IF k > Len(lines) THEN <<>>
    ELSE (IF k \in cues /\ CueName(lines[k]) # <<>> /\ RunAfter(k, cues, dias) # {}
          THEN <<Record(CueName(lines[k]),
                        JoinWith(StrippedInOrder(lines, RunAfter(k, cues, dias)), <<" ">>))>>
          ELSE <<>>)
         \o RecordsFrom(lines, k + 1, cues, dias)

\* the records a screenplay should yield
ExpectedRecords(lines) == RecordsFrom(lines, 1, CueLines(lines), DialogueLines(lines))

\* C13: in screenplay mode every run of accepted dialogue lines that follows
\* a character cue is emitted exactly once, as one record of the lines joined
\* by single spaces under the cue's name without its parenthetical, in input
\* order.
C13_EachRunFlushedOnce ==
    (spc = "done" /\ mode = "screenplay") => script_data = ExpectedRecords(file_lines)

\* C13: two speeches, the first flushed at the second cue, the second at the
\* end of the input, one of them under a cue that carried a parenthetical
C13_Witness ==
    /\ spc = "done" /\ mode = "screenplay"
    /\ Len(script_data) = 2
    /\ \E k \in CueLines(file_lines) : CueName(file_lines[k]) # Strip(file_lines[k])
    /\ script_data[1].text # script_data[2].text

\* the line is a scene heading
IsSceneHeading(line) ==
    \E h \in SceneHeads : OccursAt(Strip(line), h, 1)

\* C14: a scene heading met in screenplay mode flushes the dialogue gathered
\* for the speaker and leaves no speaker in hand, so that no later line is
\* attributed to the earlier speaker.
C14_HeadingFlushesAndResets ==
    (/\ mode = "screenplay"
     /\ line_no >= 1
     /\ IsSceneHeading(file_lines[line_no]))
    => current_char = <<>> /\ current_dialogue = <<>>

\* ---- what each of the later parts leaves alone, and its surroundings at rest
firstVars == <<jsonVars, llmVars, chunkVars, overlapVars, shrekVars>>

FirstIdle == JsonIdle /\ LlmIdle /\ ChunkIdle /\ OverlapIdle /\ ShrekIdle

restOfPipe == <<firstVars, cleanVars, extractVars, cmdVars, urlVars>>

IdleButPipe == FirstIdle /\ CleanIdle /\ ExtractIdle /\ CmdIdle /\ UrlIdle

restOfClean == <<firstVars, pipeVars, extractVars, cmdVars, urlVars>>

IdleButClean == FirstIdle /\ PipeIdle /\ ExtractIdle /\ CmdIdle /\ UrlIdle

restOfExtract == <<firstVars, pipeVars, cleanVars, cmdVars, urlVars>>

IdleButExtract == FirstIdle /\ PipeIdle /\ CleanIdle /\ CmdIdle /\ UrlIdle

restOfCmd == <<firstVars, pipeVars, cleanVars, extractVars, urlVars>>

IdleButCmd == FirstIdle /\ PipeIdle /\ CleanIdle /\ ExtractIdle /\ UrlIdle

restOfUrl == <<firstVars, pipeVars, cleanVars, extractVars, cmdVars>>

IdleButUrl == FirstIdle /\ PipeIdle /\ CleanIdle /\ ExtractIdle /\ CmdIdle

\* ---- (end)

\* ---------------------------------------------------------------------------
\* validate_scripts, fuse_script_subtitles and run_pipeline from its third step
\* (script-parsing-investigation/movie_pipeline.py)
\* ---------------------------------------------------------------------------

\* MIN_OVERLAP_THRESHOLD = 0.1, as the fraction <<1, 10>>
MIN_OVERLAP_THRESHOLD == <<1, 10>>

\* a < b for two scores held as fractions with positive denominators
ScoreLess(a, b) == a[1] * b[2] < b[1] * a[2]

\* len(script_text) < 1000: too little text for an artifact to be validated
MinScriptChars == 1000

Insufficient(artifact) == artifact.text_len = 0 \/ artifact.text_len < MinScriptChars

\* results.sort(key=overlap_score, reverse=True) puts a before b when a's score
\* is the greater; SortsFirst_ascending is the order without reverse=True
SortsFirst_ascending(a, b) == ScoreLess(a.overlap_score, b.overlap_score)

SortsFirst(a, b) == ScoreLess(b.overlap_score, a.overlap_score)

\* list.sort is stable: r is placed before the first element it sorts before
InsertSorted(r, rs) ==
    LET before == {k \in 1..Len(rs) : SortsFirst(r, rs[k])}
        at     == IF before = {} THEN Len(rs) + 1
                  ELSE CHOOSE k \in before : \A m \in before : k <= m
    IN  SubSeq(rs, 1, at - 1) \o <<r>> \o SubSeq(rs, at, Len(rs))

RECURSIVE SortResults(_)
SortResults(rs) ==
    IF rs = <<>> THEN <<>>
    ELSE InsertSorted(rs[Len(rs)], SortResults(SubSeq(rs, 1, Len(rs) - 1)))

\* best_script.overlap_score < MIN_OVERLAP_THRESHOLD
LowOverlap(best) == ScoreLess(best.overlap_score, MIN_OVERLAP_THRESHOLD)

\* the artifacts tried: the length of the text extracted from each and the
\* matched count calculate_overlap finds for it; total_checked depends on the
\* subtitle lines alone, so it is the same for every artifact of a run
TextLens == {0, 999, 1000}

TotalsChecked == {0, 3, 20}

MatchedCounts == {0, 1, 2, 20}

MaxArtifacts == 2

Artifacts(total) ==
    {[text_len |-> n, matched |-> m, total |-> total] :
        n \in TextLens, m \in {c \in MatchedCounts : c <= total}}

PipelineSteps == SUBSET {"subtitles", "scripts", "validate", "fuse"}

PipelineInit ==
    /\ IdleButPipe
    /\ ppc = "step1"
    /\ steps \in PipelineSteps
    /\ script_artifacts = <<>>
    /\ artifact_idx = 0
    /\ results = <<>>
    /\ best_script = <<>>
    /\ printed = <<>>
    /\ fusion_calls = 0
    /\ fused = <<>>
    /\ fusion_events = <<>>
    /\ subtitle_info = <<>>

\* what source_subtitles or check_existing_subtitles may answer: None, or a
\* track with so many lines for calculate_overlap to check
SubtitleInfos == {<<>>} \cup {<<[total_checked |-> total]>> : total \in TotalsChecked}

\* "if not subtitle_info"
NoSubtitles(info) == info = <<>>

\* NothingSourced as it would be if step 2 went on with no script at all
NothingSourced_never(artifacts) == FALSE

\* "if not script_artifacts"
NothingSourced(artifacts) == artifacts = <<>>

\* run_pipeline, step 1: source_subtitles with "subtitles" among the steps,
\* check_existing_subtitles without; None ends the run
SourceSubtitles ==
    /\ ppc = "step1"
    /\ \E info \in SubtitleInfos :
         /\ subtitle_info' = info
         /\ IF NoSubtitles(info)
            THEN /\ printed' = Append(printed,
                        IF "subtitles" \in steps
                        THEN "Pipeline failed: Could not source subtitles"
                        ELSE "Error: No existing subtitles found. Run with --step subtitles first")
                 /\ ppc' = "done"
            ELSE /\ ppc' = "step2"
                 /\ UNCHANGED printed
    /\ UNCHANGED <<script_artifacts, steps, artifact_idx, results, best_script,
                   fusion_calls, fused, fusion_events>>
    /\ UNCHANGED restOfPipe

\* run_pipeline, step 2: source_scripts with "scripts" among the steps, the
\* files of the scripts directory without; an empty list ends the run
SourceScripts ==
    /\ ppc = "step2"
    /\ \E artifacts \in SeqsUpTo(Artifacts(subtitle_info[1].total_checked), MaxArtifacts) :
         /\ script_artifacts' = artifacts
         /\ IF NothingSourced(artifacts)
            THEN /\ printed' = Append(printed,
                        IF "scripts" \in steps
                        THEN "Pipeline failed: Could not source any scripts"
                        ELSE "Error: No existing scripts found. Run with --step scripts first")
                 /\ ppc' = "done"
            ELSE /\ ppc' = "step3"
                 /\ UNCHANGED printed
    /\ UNCHANGED <<steps, artifact_idx, results, best_script,
                   fusion_calls, fused, fusion_events, subtitle_info>>
    /\ UNCHANGED restOfPipe

\* run_pipeline, step 3 with "validate" among the steps: validate_scripts is
\* entered
EnterValidation ==
    /\ ppc = "step3"
    /\ "validate" \in steps
    /\ ppc' = "validate"
    /\ printed' = Append(printed, "STEP 3: Script Validation")
    /\ UNCHANGED <<script_artifacts, steps, artifact_idx, results, best_script,
                   fusion_calls, fused, fusion_events, subtitle_info>>
    /\ UNCHANGED restOfPipe

\* run_pipeline, step 3 without "validate": the first script is taken, with an
\* overlap_score of 1.0
SkipValidation ==
    /\ ppc = "step3"
    /\ "validate" \notin steps
    /\ results' = IF script_artifacts # <<>>
                  THEN <<[script_path          |-> 1,
                          overlap_score        |-> <<1, 1>>,
                          matched_lines        |-> 0,
                          total_subtitle_lines |-> 0,
                          sample_matches       |-> <<>>]>>
                  ELSE <<>>
    /\ ppc' = "step4"
    /\ UNCHANGED <<script_artifacts, steps, artifact_idx, best_script, printed,
                   fusion_calls, fused, fusion_events, subtitle_info>>
    /\ UNCHANGED restOfPipe

\* one pass of validate_scripts' loop over the artifacts
ValidateArtifact ==
    /\ ppc = "validate"
    /\ artifact_idx < Len(script_artifacts)
    /\ artifact_idx' = artifact_idx + 1
    /\ LET artifact == script_artifacts[artifact_idx + 1]
           scored   == ValidationResult(artifact.matched, artifact.total, <<>>)
       IN  IF Insufficient(artifact)
           THEN /\ printed' = Append(printed, "Skipped: insufficient text content")
                /\ UNCHANGED results
           ELSE /\ results' = Append(results,
                                     [scored EXCEPT !.script_path = artifact_idx + 1])
                /\ printed' = Append(printed, "Overlap")
    /\ UNCHANGED <<ppc, script_artifacts, steps, best_script, fusion_calls, fused, fusion_events, subtitle_info>>
    /\ UNCHANGED restOfPipe

\* the end of validate_scripts (the sort and the return) and run_pipeline's
\* test of what it returned
ReturnResults ==
    /\ ppc = "validate"
    /\ artifact_idx = Len(script_artifacts)
    /\ results' = SortResults(results)
    /\ IF results = <<>>
       THEN /\ printed' = Append(printed, "Pipeline failed: No scripts passed validation")
            /\ ppc' = "done"
       ELSE /\ printed' = Append(printed, "Best match")
            /\ ppc' = "step4"
    /\ UNCHANGED <<script_artifacts, steps, artifact_idx, best_script,
                   fusion_calls, fused, fusion_events, subtitle_info>>
    /\ UNCHANGED restOfPipe

\* run_pipeline, step 4 without "fuse": None is returned
SkipFusion ==
    /\ ppc = "step4"
    /\ "fuse" \notin steps
    /\ ppc' = "done"
    /\ UNCHANGED <<script_artifacts, steps, artifact_idx, results, best_script,
                   printed, fusion_calls, fused, fusion_events, subtitle_info>>
    /\ UNCHANGED restOfPipe

\* fuse_script_subtitles: what it prints before the call of run_gemini_fusion
FusionNotes(best) ==
    (IF LowOverlap(best)
     THEN <<"Warning: Best script has low overlap",
            "Proceeding anyway, but results may be poor quality">>
     ELSE <<>>) \o <<"Running Gemini fusion...">>

\* how a call of run_gemini_fusion can go: the endpoint is never reached (no
\* package, no API key, unreadable files), it answers with lines, it answers
\* with text that no parse salvages, or generate_content raises
FusionOutcomes == {"not_called", "lines", "unparsable", "raised"}

\* the one generate_content call of run_gemini_fusion, as the log keeps it
FusionEvents(outcome, msg) ==
    CASE outcome = "not_called" -> <<>>
      [] outcome = "raised" -> <<CallEvent(ErrorKind(msg))>>
      [] OTHER -> <<CallEvent("ok")>>

\* fuse_script_subtitles and what run_pipeline does with its answer;
\* run_gemini_fusion answers with an error or with lines
FuseWith(best) ==
    /\ best_script' = <<best>>
    /\ fusion_calls' = fusion_calls + 1
    /\ \E outcome \in FusionOutcomes : \E msg \in ErrorMessages :
         /\ fusion_events' = FusionEvents(outcome, msg)
         /\ IF outcome # "lines"
            THEN /\ printed' = printed \o FusionNotes(best) \o <<"Error">>
                 /\ fused' = <<>>
            ELSE /\ printed' = printed \o FusionNotes(best) \o <<"Pipeline Complete!">>
                 /\ fused' = <<[script_source        |-> best.script_path,
                                script_overlap_score |-> best.overlap_score]>>
    /\ ppc' = "done"

\* run_pipeline, step 4 with "fuse": best_script = validation_results[0], which
\* raises IndexError on an empty list, then fuse_script_subtitles
FuseBestScript ==
    /\ ppc = "step4"
    /\ "fuse" \in steps
    /\ IF results = <<>>
       THEN /\ ppc' = "raised"
            /\ UNCHANGED <<best_script, printed, fusion_calls, fused, fusion_events>>
       ELSE FuseWith(results[1])
    /\ UNCHANGED <<script_artifacts, steps, artifact_idx, results, subtitle_info>>
    /\ UNCHANGED restOfPipe

PipelineNext ==
    \/ SourceSubtitles
    \/ SourceScripts
    \/ EnterValidation
    \/ SkipValidation
    \/ ValidateArtifact
    \/ ReturnResults
    \/ SkipFusion
    \/ FuseBestScript

SpecPipeline == PipelineInit /\ [][PipelineNext]_vars

Said(message) == \E k \in 1..Len(printed) : printed[k] = message

\* the artifacts validate_scripts does not skip, by their place in the list
Validated == {k \in 1..Len(script_artifacts) : ~Insufficient(script_artifacts[k])}

\* C11: validate_scripts returns one result for each artifact it does not
\* skip, ordered by overlap_score non-increasing; the pipeline hands the first
\* to the fusion; when its score is below MIN_OVERLAP_THRESHOLD the warning is
\* printed, and only then, and run_gemini_fusion is called all the same.
C11_BestFirstWarnedAndFused ==
    /\ (ppc \in {"step4", "done"} /\ "validate" \in steps) =>
          /\ \A k \in 1..Len(results) : \A m \in k..Len(results) :
                ~ScoreLess(results[k].overlap_score, results[m].overlap_score)
          /\ {results[k].script_path : k \in 1..Len(results)} = Validated
          /\ Len(results) = Cardinality(Validated)
          /\ \A k \in 1..Len(results) :
                results[k].overlap_score =
                    OverlapScore(script_artifacts[results[k].script_path].matched,
                                 script_artifacts[results[k].script_path].total)
    /\ (ppc = "done" /\ "fuse" \in steps /\ results # <<>>) =>
          /\ best_script = <<results[1]>>
          /\ fusion_calls = 1
          /\ Said("Running Gemini fusion...")
          /\ Said("Warning: Best script has low overlap") <=> LowOverlap(results[1])
          /\ Said("Proceeding anyway, but results may be poor quality") <=> LowOverlap(results[1])

\* two scripts were validated, the better of them had been met second and is
\* below the threshold, and the fusion has been run with it
C11_Witness ==
    /\ ppc = "done"
    /\ "validate" \in steps
    /\ Len(results) >= 2
    /\ results[1].script_path > results[2].script_path
    /\ ScoreLess(results[2].overlap_score, results[1].overlap_score)
    /\ LowOverlap(results[1])
    /\ Said("Warning: Best script has low overlap")
    /\ fusion_calls = 1
    /\ fused # <<>>

\* ---------------------------------------------------------------------------
\* fix_ocr_errors, remove_script_artifacts, remove_translation_markers and
\* clean_text (parser/src/utils/text_cleaning.py)
\* ---------------------------------------------------------------------------

\* the regex \b on either side of the word characters s[p..e]
BoundaryBefore(s, p) == p = 1 \/ ~IsWordChar(s[p - 1])

BoundaryAfter(s, e) == e >= Len(s) \/ ~IsWordChar(s[e + 1])

IsLetter(c) == IsLower(c) \/ IsUpper(c)

RECURSIVE DigitRun(_, _)
\* the length of the run of digits that starts at 1-based position p
DigitRun(s, p) == IF p <= Len(s) /\ s[p] \in Digits THEN 1 + DigitRun(s, p + 1) ELSE 0

\* OCR_CORRECTIONS but for its last two entries: each pattern stands between two
\* \b and is compiled with re.IGNORECASE; "[A-Z]" is the group ([A-Z]) and "\\1"
\* what it matched
OCR_CORRECTIONS == <<
    [pattern |-> <<"[A-Z]", "'", "1", "1">>, replacement |-> <<"\\1", "'", "l", "l">>],
    [pattern |-> <<"I", "'", "1", "1">>, replacement |-> <<"I", "'", "l", "l">>],
    [pattern |-> <<"h", "e", "'", "1", "1">>, replacement |-> <<"h", "e", "'", "l", "l">>],
    [pattern |-> <<"s", "h", "e", "'", "1", "1">>, replacement |-> <<"s", "h", "e", "'", "l", "l">>],
    [pattern |-> <<"w", "e", "'", "1", "1">>, replacement |-> <<"w", "e", "'", "l", "l">>],
    [pattern |-> <<"t", "h", "e", "y", "'", "1", "1">>, replacement |-> <<"t", "h", "e", "y", "'", "l", "l">>],
    [pattern |-> <<"y", "o", "u", "'", "1", "1">>, replacement |-> <<"y", "o", "u", "'", "l", "l">>],
    [pattern |-> <<"i", "t", "'", "1", "1">>, replacement |-> <<"i", "t", "'", "l", "l">>],
    [pattern |-> <<"t", "h", "a", "t", "'", "1", "1">>, replacement |-> <<"t", "h", "a", "t", "'", "l", "l">>],
    [pattern |-> <<"w", "h", "o", "'", "1", "1">>, replacement |-> <<"w", "h", "o", "'", "l", "l">>],
    [pattern |-> <<"w", "h", "a", "t", "'", "1", "1">>, replacement |-> <<"w", "h", "a", "t", "'", "l", "l">>],
    [pattern |-> <<"w", "o", "n", "'", "1">>, replacement |-> <<"w", "o", "n", "'", "t">>],
    [pattern |-> <<"c", "a", "n", "'", "1">>, replacement |-> <<"c", "a", "n", "'", "t">>],
    [pattern |-> <<"d", "o", "n", "'", "1">>, replacement |-> <<"d", "o", "n", "'", "t">>],
    [pattern |-> <<"d", "o", "e", "s", "n", "'", "1">>, replacement |-> <<"d", "o", "e", "s", "n", "'", "t">>],
    [pattern |-> <<"d", "i", "d", "n", "'", "1">>, replacement |-> <<"d", "i", "d", "n", "'", "t">>],
    [pattern |-> <<"w", "o", "u", "l", "d", "n", "'", "1">>, replacement |-> <<"w", "o", "u", "l", "d", "n", "'", "t">>],
    [pattern |-> <<"c", "o", "u", "l", "d", "n", "'", "1">>, replacement |-> <<"c", "o", "u", "l", "d", "n", "'", "t">>],
    [pattern |-> <<"s", "h", "o", "u", "l", "d", "n", "'", "1">>, replacement |-> <<"s", "h", "o", "u", "l", "d", "n", "'", "t">>],
    [pattern |-> <<"h", "a", "v", "e", "n", "'", "1">>, replacement |-> <<"h", "a", "v", "e", "n", "'", "t">>],
    [pattern |-> <<"h", "a", "s", "n", "'", "1">>, replacement |-> <<"h", "a", "s", "n", "'", "t">>],
    [pattern |-> <<"i", "s", "n", "'", "1">>, replacement |-> <<"i", "s", "n", "'", "t">>],
    [pattern |-> <<"a", "r", "e", "n", "'", "1">>, replacement |-> <<"a", "r", "e", "n", "'", "t">>],
    [pattern |-> <<"w", "a", "s", "n", "'", "1">>, replacement |-> <<"w", "a", "s", "n", "'", "t">>],
    [pattern |-> <<"w", "e", "r", "e", "n", "'", "1">>, replacement |-> <<"w", "e", "r", "e", "n", "'", "t">>],
    [pattern |-> <<"t", "b", "e">>, replacement |-> <<"t", "h", "e">>],
    [pattern |-> <<"w", "b", "a", "t">>, replacement |-> <<"w", "h", "a", "t">>],
    [pattern |-> <<"w", "b", "e", "n">>, replacement |-> <<"w", "h", "e", "n">>],
    [pattern |-> <<"w", "b", "e", "r", "e">>, replacement |-> <<"w", "h", "e", "r", "e">>],
    [pattern |-> <<"w", "b", "y">>, replacement |-> <<"w", "h", "y">>],
    [pattern |-> <<"w", "b", "o">>, replacement |-> <<"w", "h", "o">>],
    [pattern |-> <<"t", "b", "a", "t">>, replacement |-> <<"t", "h", "a", "t">>],
    [pattern |-> <<"t", "b", "i", "s">>, replacement |-> <<"t", "h", "i", "s">>],
    [pattern |-> <<"t", "b", "e", "y">>, replacement |-> <<"t", "h", "e", "y">>],
    [pattern |-> <<"t", "b", "e", "n">>, replacement |-> <<"t", "h", "e", "n">>],
    [pattern |-> <<"t", "b", "e", "r", "e">>, replacement |-> <<"t", "h", "e", "r", "e">>],
    [pattern |-> <<"t", "b", "o", "s", "e">>, replacement |-> <<"t", "h", "o", "s", "e">>],
    [pattern |-> <<"t", "b", "e", "s", "e">>, replacement |-> <<"t", "h", "e", "s", "e">>],
    [pattern |-> <<"t", "b", "i", "n", "k">>, replacement |-> <<"t", "h", "i", "n", "k">>],
    [pattern |-> <<"t", "b", "i", "n", "g">>, replacement |-> <<"t", "h", "i", "n", "g">>],
    [pattern |-> <<"t", "b", "i", "n", "g", "s">>, replacement |-> <<"t", "h", "i", "n", "g", "s">>]>>

\* pattern element e matches character c under re.IGNORECASE
MatchesChar(c, e) == IF e = "[A-Z]" THEN IsLetter(c) ELSE LowerChar(c) = LowerChar(e)

\* \b pattern \b matches s at 1-based position p
WordAt(s, pattern, p) ==
    /\ p + Len(pattern) - 1 <= Len(s)
    /\ \A j \in 1..Len(pattern) : MatchesChar(s[p + j - 1], pattern[j])
    /\ BoundaryBefore(s, p)
    /\ BoundaryAfter(s, p + Len(pattern) - 1)

Replaced(replacement, first) ==
    [j \in 1..Len(replacement) |-> IF replacement[j] = "\\1" THEN first ELSE replacement[j]]

RECURSIVE SubWord(_, _, _)
\* pattern.sub(replacement, text) for one of OCR_CORRECTIONS, from position p on
SubWord(s, p, c) ==
    IF p > Len(s) THEN <<>>
    ELSE IF WordAt(s, c.pattern, p)
         THEN Replaced(c.replacement, s[p]) \o SubWord(s, p + Len(c.pattern), c)
         ELSE <<s[p]>> \o SubWord(s, p + 1, c)

\* (?<=[a-z])1(?=[a-z]) -> l and (?<=[A-Z])0(?=[A-Z]) -> O, compiled without
\* re.IGNORECASE
SubOneBetweenLowers(s) ==
    [p \in 1..Len(s) |->
        IF s[p] = "1" /\ p > 1 /\ p < Len(s) /\ IsLower(s[p - 1]) /\ IsLower(s[p + 1])
        THEN "l" ELSE s[p]]

SubZeroBetweenUppers(s) ==
    [p \in 1..Len(s) |->
        IF s[p] = "0" /\ p > 1 /\ p < Len(s) /\ IsUpper(s[p - 1]) /\ IsUpper(s[p + 1])
        THEN "O" ELSE s[p]]

RECURSIVE ApplyCorrections(_, _)
\* the loop of fix_ocr_errors over the word patterns, from the k-th on
ApplyCorrections(text, k) ==
    IF k > Len(OCR_CORRECTIONS) THEN text
    ELSE ApplyCorrections(SubWord(text, 1, OCR_CORRECTIONS[k]), k + 1)

fix_ocr_errors(text) == SubZeroBetweenUppers(SubOneBetweenLowers(ApplyCorrections(text, 1)))

\* SCRIPT_ARTIFACTS[0]: \b(YELLOW|...|REVISED?)\s+\d{1,2}/\d{1,2}/\d{2,4}\b
RevisionColours == {<<"Y", "E", "L", "L", "O", "W">>,
                    <<"B", "L", "U", "E">>,
                    <<"P", "I", "N", "K">>,
                    <<"G", "R", "E", "E", "N">>,
                    <<"G", "O", "L", "D", "E", "N", "R", "O", "D">>,
                    <<"B", "U", "F", "F">>,
                    <<"S", "A", "L", "M", "O", "N">>,
                    <<"C", "H", "E", "R", "R", "Y">>,
                    <<"T", "A", "N">>,
                    <<"W", "H", "I", "T", "E">>,
                    <<"R", "E", "V", "I", "S", "E", "D">>,
                    <<"R", "E", "V", "I", "S", "E">>}

\* the 1-based position after the digits \d{lo,hi} that start at p, then the
\* character sep where one is asked for; 0 when they are not there
AfterDigits(s, p, lo, hi, sep) ==
    IF DigitRun(s, p) < lo \/ DigitRun(s, p) > hi THEN 0
    ELSE IF sep = "" THEN (IF BoundaryAfter(s, p + DigitRun(s, p) - 1)
                           THEN p + DigitRun(s, p) ELSE 0)
    ELSE IF p + DigitRun(s, p) <= Len(s) /\ s[p + DigitRun(s, p)] = sep
         THEN p + DigitRun(s, p) + 1 ELSE 0

\* the position after \s+\d{1,2}/\d{1,2}/\d{2,4}\b from p on, 0 when no match
AfterYear(s, p) == IF p = 0 THEN 0 ELSE AfterDigits(s, p, 2, 4, "")

AfterMonth(s, p) == IF p = 0 THEN 0 ELSE AfterYear(s, AfterDigits(s, p, 1, 2, "/"))

AfterDate(s, p) ==
    IF PastSpaces(s, p) = p THEN 0
    ELSE AfterMonth(s, AfterDigits(s, PastSpaces(s, p), 1, 2, "/"))

\* the position after the match of the revision marker at p, 0 when none
RevisionEnd(s, p) ==
    LET ends == {AfterDate(s, p + Len(w)) : w \in {v \in RevisionColours :
                    /\ BoundaryBefore(s, p)
                    /\ p + Len(v) - 1 <= Len(s)
                    /\ \A j \in 1..Len(v) : LowerChar(s[p + j - 1]) = LowerChar(v[j])}} \ {0}
    IN  IF ends = {} THEN 0 ELSE CHOOSE e \in ends : TRUE

RECURSIVE SubRevision(_, _)
SubRevision(s, p) ==
    IF p > Len(s) THEN <<>>
    ELSE IF RevisionEnd(s, p) > 0 THEN SubRevision(s, RevisionEnd(s, p))
    ELSE <<s[p]>> \o SubRevision(s, p + 1)

\* the position after [A-Z]? and after \.? from p
AfterOptional(s, p, set) == IF p <= Len(s) /\ s[p] \in set THEN p + 1 ELSE p

UpperSet == {Uppers[k] : k \in 1..26}

\* SCRIPT_ARTIFACTS[1]: ^\s*\d+[A-Z]?\.?\s*$ takes the whole text or nothing
SubPageNumber(s) ==
    IF /\ DigitRun(s, PastSpaces(s, 1)) >= 1
       /\ PastSpaces(s, AfterOptional(s,
              AfterOptional(s, PastSpaces(s, 1) + DigitRun(s, PastSpaces(s, 1)), UpperSet),
              {"."})) = Len(s) + 1
    THEN <<>> ELSE s

\* SCRIPT_ARTIFACTS[2]: \bPAGE\s+\d+\b; the position after the match at p or 0
PageEnd(s, p) ==
    IF /\ BoundaryBefore(s, p)
       /\ p + 3 <= Len(s)
       /\ \A j \in 1..4 : LowerChar(s[p + j - 1]) = <<"p", "a", "g", "e">>[j]
       /\ PastSpaces(s, p + 4) > p + 4
       /\ DigitRun(s, PastSpaces(s, p + 4)) >= 1
       /\ BoundaryAfter(s, PastSpaces(s, p + 4) + DigitRun(s, PastSpaces(s, p + 4)) - 1)
    THEN PastSpaces(s, p + 4) + DigitRun(s, PastSpaces(s, p + 4))
    ELSE 0

RECURSIVE SubPage(_, _)
SubPage(s, p) ==
    IF p > Len(s) THEN <<>>
    ELSE IF PageEnd(s, p) > 0 THEN SubPage(s, PageEnd(s, p))
    ELSE <<s[p]>> \o SubPage(s, p + 1)

\* SCRIPT_ARTIFACTS[3]: \s+\d+\s*$ matches from p to the end of s
TrailingNumberAt(s, p) ==
    /\ PastSpaces(s, p) > p
    /\ DigitRun(s, PastSpaces(s, p)) >= 1
    /\ PastSpaces(s, PastSpaces(s, p) + DigitRun(s, PastSpaces(s, p))) = Len(s) + 1

SubTrailingNumber(s) ==
    LET starts == {p \in 1..Len(s) : TrailingNumberAt(s, p)}
    IN  IF starts = {} THEN s
        ELSE SubSeq(s, 1, (CHOOSE p \in starts : \A q \in starts : p <= q) - 1)

remove_script_artifacts(text) ==
    Strip(SubTrailingNumber(SubPage(SubPageNumber(SubRevision(text, 1)), 1)))

RECURSIVE SubMarkers(_, _)
\* TRANSLATION_MARKER_PATTERN.sub('', s) from p on: <<\s* is tried first, then \s*>>
SubMarkers(s, p) ==
    IF p > Len(s) THEN <<>>
    ELSE IF OccursAt(s, <<"<", "<">>, p) THEN SubMarkers(s, PastSpaces(s, p + 2))
    ELSE IF OccursAt(s, <<">", ">">>, PastSpaces(s, p)) THEN SubMarkers(s, PastSpaces(s, p) + 2)
    ELSE <<s[p]>> \o SubMarkers(s, p + 1)

remove_translation_markers(text) == Strip(SubMarkers(text, 1))

clean_text(text) ==
    Strip(remove_script_artifacts(fix_ocr_errors(remove_translation_markers(text))))

Cleaners == {"fix_ocr_errors", "remove_script_artifacts", "remove_translation_markers",
             "clean_text"}

Cleaned(f, text) ==
    CASE f = "fix_ocr_errors"             -> fix_ocr_errors(text)
      [] f = "remove_script_artifacts"    -> remove_script_artifacts(text)
      [] f = "remove_translation_markers" -> remove_translation_markers(text)
      [] f = "clean_text"                 -> clean_text(text)

\* the strings tried are made of at most MaxTokens of these
CleanPieces == {<<"w", "b", "o">>,
                <<"'", "1", "1">>,
                <<" ", "1">>,
                <<"x">>,
                <<"A", "0">>,
                <<"<">>,
                <<">", ">">>,
                <<"P", "A", "G", "E">>,
                <<"B", "l", "u", "e", " ", "1", "/", "2", "/", "3", "4">>,
                <<"\n">>}

MaxTokens == 3

MaxPasses == 2

CleanInit ==
    /\ IdleButClean
    /\ cleaner \in Cleaners
    /\ raw_text \in {Flatten(t) : t \in SeqsUpTo(CleanPieces, MaxTokens)}
    /\ passes = <<>>

Reapply(f) ==
    /\ cleaner = f
    /\ Len(passes) < MaxPasses
    /\ passes' = Append(passes, Cleaned(f, IF passes = <<>> THEN raw_text
                                           ELSE passes[Len(passes)]))
    /\ UNCHANGED <<cleaner, raw_text>>
    /\ UNCHANGED restOfClean

FixOcrErrors == Reapply("fix_ocr_errors")

RemoveScriptArtifacts == Reapply("remove_script_artifacts")

RemoveTranslationMarkers == Reapply("remove_translation_markers")

CleanText == Reapply("clean_text")

CleanNext ==
    \/ FixOcrErrors
    \/ RemoveScriptArtifacts
    \/ RemoveTranslationMarkers
    \/ CleanText

SpecClean == CleanInit /\ [][CleanNext]_vars

\* C12: each of clean_text, fix_ocr_errors, remove_script_artifacts and
\* remove_translation_markers is idempotent: applied to what it returned, it
\* returns the same string again.
C12_CleanersAreIdempotent ==
    \A k \in 2..Len(passes) : passes[k] = passes[k - 1]

\* ---------------------------------------------------------------------------
\* extract_direct, extract_simple (parser/src/extractors/direct.py) and
\* extract_ocr (parser/src/extractors/ocr.py)
\* ---------------------------------------------------------------------------

MIN_TEXT_CHARS_PER_PAGE == 100

\* MAX_GARBAGE_RATIO = 0.20, as the fraction <<1, 5>>
MAX_GARBAGE_RATIO == <<1, 5>>

\* text[:3000] and lines[:50] of _has_garbage_text
SampleChars == 3000

SampleLineCount == 50

RECURSIVE SplitOn(_, _)
\* s.split(c) for a single character c
SplitOn(s, c) ==
    IF \A k \in 1..Len(s) : s[k] # c THEN <<s>>
    ELSE <<SubSeq(s, 1, (CHOOSE k \in 1..Len(s) : s[k] = c /\ \A m \in 1..(k - 1) : s[m] # c) - 1)>>
         \o SplitOn(SubSeq(s, (CHOOSE k \in 1..Len(s) : s[k] = c /\ \A m \in 1..(k - 1) : s[m] # c) + 1,
                           Len(s)), c)

AlphaCount(line) == Cardinality({k \in 1..Len(line) : IsLetter(line[k])})

\* a stripped, non-empty line that _has_garbage_text counts as garbage:
\* alpha_count / len(line) < 0.3 on a line longer than 3, or ^[\W\d_\s]{3,}$
IsGarbageLine(line) ==
    \/ Len(line) > 3 /\ 10 * AlphaCount(line) < 3 * Len(line)
    \/ Len(line) >= 3 /\ \A k \in 1..Len(line) : ~IsLetter(line[k])

\* the lines _has_garbage_text looks at: the first 50 of text[:3000]
SampledLines(text) ==
    SubSeq(SplitOn(Slice(text, 0, SampleChars), "\n"), 1,
           Min(SampleLineCount, Len(SplitOn(Slice(text, 0, SampleChars), "\n"))))

CheckedOf(lines) == {k \in 1..Len(lines) : Strip(lines[k]) # <<>>}

GarbageOf(lines) == {k \in CheckedOf(lines) : IsGarbageLine(Strip(lines[k]))}

\* ratio > MAX_GARBAGE_RATIO
RatioAbove(garbage_lines, checked_lines) ==
    garbage_lines * MAX_GARBAGE_RATIO[2] > MAX_GARBAGE_RATIO[1] * checked_lines

GarbageVerdict(lines) ==
    IF CheckedOf(lines) = {} THEN TRUE
    ELSE RatioAbove(Cardinality(GarbageOf(lines)), Cardinality(CheckedOf(lines)))

has_garbage_text(text) == GarbageVerdict(SampledLines(text))

\* "\n\n".join(all_text)
Combined(texts) == JoinWith(texts, <<"\n", "\n">>)

\* the end of _extract_generic, from the test of pages_with_text on
GenericResult(texts, with_text, preserve_layout) ==
    IF with_text = 0 THEN <<"None">>
    ELSE IF Len(Strip(Combined(texts))) < MIN_TEXT_CHARS_PER_PAGE * 2 THEN <<"None">>
    ELSE IF preserve_layout /\ has_garbage_text(Combined(texts)) THEN <<"None">>
    ELSE <<"str", Combined(texts)>>

\* the pages tried: lines of prose and lines of symbols, each 50 characters
\* long, and pages made of them
ProseLine == <<"T", "h", "e", " ", "q", "u", "i", "c", "k", " ", "b", "r", "o", "w", "n", " ", "f", "o", "x", " ", "j", "u", "m", "p", "s", " ", "o", "v", "e", "r", " ", "t", "h", "e", " ", "l", "a", "z", "y", " ", "d", "o", "g", " ", "a", "g", "a", "i", "n", ".">>

SymbolLine == Flatten([k \in 1..12 |-> <<"%", "#", "@", "$">>]) \o <<"%", "#">>

PageOf(lines) == JoinWith(lines, <<"\n">>)

PageTexts ==
    {<<>>,
     <<" ", "\n">>,
     ProseLine,
     PageOf(<<ProseLine, ProseLine, ProseLine, ProseLine>>),
     PageOf(<<SymbolLine, SymbolLine, SymbolLine, SymbolLine>>),
     PageOf(<<ProseLine, SymbolLine, ProseLine, ProseLine, ProseLine>>),
     PageOf(<<ProseLine, ProseLine, SymbolLine, ProseLine>>)}

MaxPages == 2

Extractors == {"extract_direct", "extract_simple", "extract_ocr"}

\* raises_at = 0: nothing raises; k in 1..Len(pages): reading page k raises;
\* Len(pages) + 1: opening the document (fitz.open, convert_from_path) raises
Pdfs ==
    {[exists |-> e, pages |-> p, raises_at |-> r] :
        e \in BOOLEAN, p \in SeqsUpTo(PageTexts, MaxPages), r \in 0..(MaxPages + 1)}

ExtractInit ==
    /\ IdleButExtract
    /\ xpc = "open"
    /\ extractor \in Extractors
    /\ pdf \in {d \in Pdfs : d.raises_at <= Len(d.pages) + 1
                             /\ (~d.exists => d.pages = <<>> /\ d.raises_at = 0)}
    /\ ocr_available \in BOOLEAN
    /\ page_idx = 0
    /\ all_text = <<>>
    /\ pages_with_text = 0
    /\ extracted = <<>>

Embedded == {"extract_direct", "extract_simple"}

\* _extract_generic up to its loop: the file is missing, fitz.open raises, or
\* the document is open
OpenDocument ==
    /\ xpc = "open"
    /\ extractor \in Embedded
    /\ IF ~pdf.exists \/ pdf.raises_at = Len(pdf.pages) + 1
       THEN xpc' = "returned" /\ extracted' = <<"None">>
       ELSE xpc' = "pages" /\ UNCHANGED extracted
    /\ UNCHANGED <<extractor, pdf, ocr_available, page_idx, all_text, pages_with_text>>
    /\ UNCHANGED restOfExtract

\* one pass of the loop over the pages of the document
ReadPage ==
    /\ xpc = "pages"
    /\ extractor \in Embedded
    /\ page_idx < Len(pdf.pages)
    /\ IF pdf.raises_at = page_idx + 1
       THEN /\ xpc' = "returned"
            /\ extracted' = <<"None">>
            /\ UNCHANGED <<page_idx, all_text, pages_with_text>>
       ELSE /\ page_idx' = page_idx + 1
            /\ all_text' = Append(all_text, pdf.pages[page_idx + 1])
            /\ pages_with_text' =
                 IF Len(Strip(pdf.pages[page_idx + 1])) >= MIN_TEXT_CHARS_PER_PAGE
                 THEN pages_with_text + 1 ELSE pages_with_text
            /\ UNCHANGED <<xpc, extracted>>
    /\ UNCHANGED <<extractor, pdf, ocr_available>>
    /\ UNCHANGED restOfExtract

\* the end of _extract_generic
ReturnExtracted ==
    /\ xpc = "pages"
    /\ extractor \in Embedded
    /\ page_idx = Len(pdf.pages)
    /\ extracted' = GenericResult(all_text, pages_with_text, extractor = "extract_direct")
    /\ xpc' = "returned"
    /\ UNCHANGED <<extractor, pdf, ocr_available, page_idx, all_text, pages_with_text>>
    /\ UNCHANGED restOfExtract

\* extract_ocr up to its loop: the OCR libraries are missing, the file is
\* missing, the conversion to images raises, or the images are there
ConvertToImages ==
    /\ xpc = "open"
    /\ extractor = "extract_ocr"
    /\ IF ~ocr_available \/ ~pdf.exists \/ pdf.raises_at = Len(pdf.pages) + 1
       THEN xpc' = "returned" /\ extracted' = <<"None">>
       ELSE xpc' = "pages" /\ UNCHANGED extracted
    /\ UNCHANGED <<extractor, pdf, ocr_available, page_idx, all_text, pages_with_text>>
    /\ UNCHANGED restOfExtract

\* one pass of extract_ocr's loop over the images
OcrPage ==
    /\ xpc = "pages"
    /\ extractor = "extract_ocr"
    /\ page_idx < Len(pdf.pages)
    /\ IF pdf.raises_at = page_idx + 1
       THEN /\ xpc' = "returned"
            /\ extracted' = <<"None">>
            /\ UNCHANGED <<page_idx, all_text>>
       ELSE /\ page_idx' = page_idx + 1
            /\ all_text' = Append(all_text, pdf.pages[page_idx + 1])
            /\ UNCHANGED <<xpc, extracted>>
    /\ UNCHANGED <<extractor, pdf, ocr_available, pages_with_text>>
    /\ UNCHANGED restOfExtract

\* the end of extract_ocr
ReturnOcrText ==
    /\ xpc = "pages"
    /\ extractor = "extract_ocr"
    /\ page_idx = Len(pdf.pages)
    /\ extracted' = <<"str", Combined(all_text)>>
    /\ xpc' = "returned"
    /\ UNCHANGED <<extractor, pdf, ocr_available, page_idx, all_text, pages_with_text>>
    /\ UNCHANGED restOfExtract

ExtractNext ==
    \/ OpenDocument
    \/ ReadPage
    \/ ReturnExtracted
    \/ ConvertToImages
    \/ OcrPage
    \/ ReturnOcrText

SpecExtract == ExtractInit /\ [][ExtractNext]_vars

\* C15: whatever the PDF, each of the three extractors returns None or a
\* string that is not empty once trimmed, and what raises inside it comes out
\* as None.
C15_NoneOrNonEmptyText ==
    xpc = "returned" =>
        /\ extracted = <<"None">> \/ (extracted[1] = "str" /\ Strip(extracted[2]) # <<>>)
        /\ (pdf.raises_at > 0 /\ pdf.raises_at <= page_idx + 1) => extracted = <<"None">>

\* a sampled non-blank line that is garbage in the words of C16: alphabetic
\* ratio below 0.3 on a line longer than 3 characters, or only symbols and digits
GarbageAsClaimed(line) ==
    \/ Len(line) > 3 /\ 10 * AlphaCount(line) < 3 * Len(line)
    \/ \A k \in 1..Len(line) : ~IsLetter(line[k])

\* more than 20% of the sampled non-blank lines are garbage
MostlyGarbage(lines) ==
    5 * Cardinality({k \in CheckedOf(lines) : GarbageAsClaimed(Strip(lines[k]))})
        > Cardinality(CheckedOf(lines))

\* C16: extract_direct and extract_simple, once the document has enough text,
\* return None exactly when more than 20% of the sampled non-blank lines of
\* the output are garbage: garbage is refused, and nothing at or below 20% is.
C16_GarbageRefusedAboveTwentyPercent ==
    (/\ xpc = "returned"
     /\ extractor \in Embedded
     /\ page_idx = Len(pdf.pages)
     /\ pages_with_text > 0
     /\ Len(Strip(Combined(all_text))) >= MIN_TEXT_CHARS_PER_PAGE * 2)
    => (extracted = <<"None">> <=> MostlyGarbage(SampledLines(Combined(all_text))))

\* ---------------------------------------------------------------------------
\* cmd_parse (parser/main.py) and parse_transcript_pdf
\* (parser/src/parsers/llm_transcript.py)
\* ---------------------------------------------------------------------------

\* a text some extraction gives; <<>> stands for None and for the empty string
SomeText == <<"H", "i", ".">>

\* the files tried: whether it exists, its suffix, what extract_simple, OCR and
\* a plain read of it would give, and whether the LLM parser returns a Scriptdle
Files ==
    [exists : BOOLEAN, suffix : {<<".", "p", "d", "f">>, <<".", "P", "D", "F">>, <<".", "t", "x", "t">>},
     embedded : {<<>>, SomeText}, ocr : {<<>>, SomeText},
     plain : {<<>>, SomeText}, parses : BOOLEAN]

CmdInit ==
    /\ IdleButCmd
    /\ mpc = "start"
    /\ file \in Files
    /\ tried = <<>>
    /\ file_text = <<>>
    /\ parsed = "None"
    /\ exit_status = -1
    /\ stderr = <<>>

\* path.suffix.lower() == ".pdf"
IsPdf(f) == Lower(f.suffix) = <<".", "p", "d", "f">>

\* cmd_parse, lines 43-50: a missing file ends the run
CheckFile ==
    /\ mpc = "start"
    /\ IF ~file.exists
       THEN /\ stderr' = Append(stderr, "Error: File not found")
            /\ exit_status' = 1
            /\ mpc' = "exited"
       ELSE /\ mpc' = "extract"
            /\ UNCHANGED <<stderr, exit_status>>
    /\ UNCHANGED <<file, tried, file_text, parsed>>
    /\ UNCHANGED restOfCmd

\* parse_transcript_pdf: extract_simple, then parse_transcript_llm on its text
\* or None at once
ParseTranscriptPdf ==
    /\ mpc = "extract"
    /\ IsPdf(file)
    /\ tried' = Append(tried, "extract_simple")
    /\ file_text' = file.embedded
    /\ IF file.embedded = <<>>
       THEN /\ stderr' = Append(stderr, "Failed to extract text from PDF")
            /\ parsed' = "None"
       ELSE /\ parsed' = IF file.parses THEN "Scriptdle" ELSE "None"
            /\ UNCHANGED stderr
    /\ mpc' = "report"
    /\ UNCHANGED <<file, exit_status>>
    /\ UNCHANGED restOfCmd

\* cmd_parse on another suffix: extract_simple, then a plain read of the file
ExtractOrRead ==
    /\ mpc = "extract"
    /\ ~IsPdf(file)
    /\ tried' = IF file.embedded = <<>> THEN <<"extract_simple", "read">>
                ELSE <<"extract_simple">>
    /\ file_text' = IF file.embedded = <<>> THEN file.plain ELSE file.embedded
    /\ IF file_text' = <<>>
       THEN /\ stderr' = Append(stderr, "Error: Failed to extract text")
            /\ exit_status' = 1
            /\ mpc' = "exited"
       ELSE /\ mpc' = "parse"
            /\ UNCHANGED <<stderr, exit_status>>
    /\ UNCHANGED <<file, parsed>>
    /\ UNCHANGED restOfCmd

\* parse_transcript_llm on the text of a file that is no PDF
ParseTranscriptLlm ==
    /\ mpc = "parse"
    /\ parsed' = IF file.parses THEN "Scriptdle" ELSE "None"
    /\ mpc' = "report"
    /\ UNCHANGED <<file, tried, file_text, exit_status, stderr>>
    /\ UNCHANGED restOfCmd

\* cmd_parse, lines 79-89
Report ==
    /\ mpc = "report"
    /\ IF parsed = "None"
       THEN /\ stderr' = Append(stderr, "Error: Parsing failed")
            /\ exit_status' = 1
       ELSE /\ exit_status' = 0
            /\ UNCHANGED stderr
    /\ mpc' = "exited"
    /\ UNCHANGED <<file, tried, file_text, parsed>>
    /\ UNCHANGED restOfCmd

CmdNext ==
    \/ CheckFile
    \/ ParseTranscriptPdf
    \/ ExtractOrRead
    \/ ParseTranscriptLlm
    \/ Report

SpecCmdParse == CmdInit /\ [][CmdNext]_vars

Tried(strategy) == \E k \in 1..Len(tried) : tried[k] = strategy

\* C17: when the embedded-text extraction of a PDF fails, OCR is attempted
\* next, and the run ends in failure for want of text only after OCR too has
\* been tried.
C17_OcrTriedBeforeGivingUp ==
    (/\ mpc \in {"report", "exited"}
     /\ IsPdf(file)
     /\ Tried("extract_simple")
     /\ file.embedded = <<>>)
    => Tried("extract_ocr")

\* ---------------------------------------------------------------------------
\* fetch_url (parser/src/extractors/url.py)
\* ---------------------------------------------------------------------------

JS_REQUIRED_PATTERNS == <<<<"J", "a", "v", "a", "S", "c", "r", "i", "p", "t", " ", "i", "s", " ", "d", "i", "s", "a", "b", "l", "e", "d">>,
                        <<"P", "l", "e", "a", "s", "e", " ", "e", "n", "a", "b", "l", "e", " ", "J", "a", "v", "a", "S", "c", "r", "i", "p", "t">>,
                        <<"c", "o", "u", "l", "d", "n", "'", "t", " ", "l", "o", "a", "d">>,
                        <<"L", "o", "a", "d", "i", "n", "g", ".", ".", ".">>,
                        <<"<", "n", "o", "s", "c", "r", "i", "p", "t", ">">>>>

JS_REQUIRED_DOMAINS == <<<<"f", "a", "n", "d", "o", "m", ".", "c", "o", "m">>,
                       <<"w", "i", "k", "i", "a", ".", "c", "o", "m">>>>

\* any(domain in url for domain in JS_REQUIRED_DOMAINS)
DomainInUrl(u) == \E k \in 1..Len(JS_REQUIRED_DOMAINS) : Contains(u, JS_REQUIRED_DOMAINS[k])

\* any(pattern in html for pattern in JS_REQUIRED_PATTERNS)
RequiresJs(body) == \E k \in 1..Len(JS_REQUIRED_PATTERNS) : Contains(body, JS_REQUIRED_PATTERNS[k])

\* the URLs and the pages tried
Urls == {<<"h", "t", "t", "p", "s", ":", "/", "/", "m", "o", "v", "i", "e", "s", ".", "f", "a", "n", "d", "o", "m", ".", "c", "o", "m", "/", "w", "i", "k", "i", "/", "S", "h", "r", "e", "k">>,
         <<"h", "t", "t", "p", "s", ":", "/", "/", "s", "h", "r", "e", "k", ".", "w", "i", "k", "i", "a", ".", "c", "o", "m", "/">>,
         <<"h", "t", "t", "p", "s", ":", "/", "/", "i", "m", "s", "d", "b", ".", "c", "o", "m", "/", "S", "h", "r", "e", "k", ".", "h", "t", "m", "l">>,
         <<"h", "t", "t", "p", "s", ":", "/", "/", "e", "x", "a", "m", "p", "l", "e", ".", "o", "r", "g", "/", "f", "a", "n", "d", "o", "m", ".", "c", "o", "m">>,
         <<"h", "t", "t", "p", "s", ":", "/", "/", "n", "o", "t", "f", "a", "n", "d", "o", "m", ".", "c", "o", "m", "/", "S", "h", "r", "e", "k">>}

Bodies == {<<"<", "p", ">", "H", "i", ".", "<", "/", "p", ">">>,
           <<"<", "n", "o", "s", "c", "r", "i", "p", "t", ">", "H", "i", ".", "<", "/", "n", "o", "s", "c", "r", "i", "p", "t", ">">>,
           <<"<", "p", ">", "L", "o", "a", "d", "i", "n", "g", ".", ".", ".", "<", "/", "p", ">">>,
           <<"<", "p", ">", "l", "o", "a", "d", "i", "n", "g", ".", ".", "<", "/", "p", ">">>,
           <<"P", "l", "e", "a", "s", "e", " ", "e", "n", "a", "b", "l", "e", " ", "J", "a", "v", "a", "S", "c", "r", "i", "p", "t">>}

Rendered == <<"<", "m", "a", "i", "n", ">", "H", "i", ".">>

\* plain_ok: requests.get succeeds and gives plain; browser_ok: the browser
\* renders the page (else fetch_url_browser raises)
Sites == [plain_ok : BOOLEAN, plain : Bodies, browser_ok : BOOLEAN]

FetchInit ==
    /\ IdleButUrl
    /\ upc = "start"
    /\ url \in Urls
    /\ use_browser \in {"None", "True", "False"}
    /\ site \in {s \in Sites : ~s.plain_ok => s.plain = CHOOSE b \in Bodies : TRUE}
    /\ fetches = <<>>
    /\ html = <<>>

\* lines 54-55: use_browser once None has been resolved
UseBrowser == IF use_browser = "None" THEN DomainInUrl(url) ELSE use_browser = "True"

\* lines 57-58: the browser is asked at once
FetchInBrowser ==
    /\ upc = "start"
    /\ UseBrowser
    /\ fetches' = Append(fetches, "browser")
    /\ IF site.browser_ok
       THEN upc' = "returned" /\ html' = Rendered
       ELSE upc' = "raised" /\ UNCHANGED html
    /\ UNCHANGED <<url, use_browser, site>>
    /\ UNCHANGED restOfUrl

\* lines 60-66: the plain request, returned unless it raises or shows a marker
FetchSimple ==
    /\ upc = "start"
    /\ ~UseBrowser
    /\ fetches' = Append(fetches, "simple")
    /\ IF ~site.plain_ok THEN upc' = "raised" /\ UNCHANGED html
       ELSE IF RequiresJs(site.plain) THEN upc' = "fallback" /\ UNCHANGED html
       ELSE upc' = "returned" /\ html' = site.plain
    /\ UNCHANGED <<url, use_browser, site>>
    /\ UNCHANGED restOfUrl

\* lines 62-64: the page asks for JavaScript and the browser is asked
FallBackToBrowser ==
    /\ upc = "fallback"
    /\ fetches' = Append(fetches, "browser")
    /\ IF site.browser_ok
       THEN upc' = "returned" /\ html' = Rendered
       ELSE upc' = "raised" /\ UNCHANGED html
    /\ UNCHANGED <<url, use_browser, site>>
    /\ UNCHANGED restOfUrl

FetchNext ==
    \/ FetchInBrowser
    \/ FetchSimple
    \/ FallBackToBrowser

SpecFetch == FetchInit /\ [][FetchNext]_vars

\* the host of a URL: what stands between "://" and the next "/"
HostOf(u) ==
    Slice(u, Find(u, <<":", "/", "/">>) + 3,
          IF FindFrom(u, <<"/">>, Find(u, <<":", "/", "/">>) + 3) < 0 THEN Len(u)
          ELSE FindFrom(u, <<"/">>, Find(u, <<":", "/", "/">>) + 3))

EndsWith(s, t) == Len(t) <= Len(s) /\ SubSeq(s, Len(s) - Len(t) + 1, Len(s)) = t

\* the host is one of the allowlisted domains or a subdomain of one
HostAllowlisted(u) ==
    \E k \in 1..Len(JS_REQUIRED_DOMAINS) :
        \/ HostOf(u) = JS_REQUIRED_DOMAINS[k]
        \/ EndsWith(HostOf(u), <<".">> \o JS_REQUIRED_DOMAINS[k])

BrowserCalls == Cardinality({k \in 1..Len(fetches) : fetches[k] = "browser"})

\* C18: with use_browser unset, fetch_url asks the browser exactly when the
\* host of the URL is allowlisted or the plain response holds a marker, asks
\* it at most once, and otherwise returns the plain response as it came.
C18_BrowserIffAllowlistedOrMarker ==
    (upc \in {"returned", "raised"} /\ use_browser = "None") =>
        /\ BrowserCalls <= 1
        /\ BrowserCalls = 1 <=>
              \/ HostAllowlisted(url)
              \/ site.plain_ok /\ RequiresJs(site.plain)
        /\ (BrowserCalls = 0 /\ upc = "returned") => html = site.plain

\* C26: with use_browser=False the simple request is forced: the browser is
\* never asked during the call, whatever the URL and whatever the body holds.
C26_FalseNeverAsksBrowser ==
    use_browser = "False" => BrowserCalls = 0

\* C21: calculate_overlap examines at most sample_size subtitle lines however
\* many it is given, and on a large track the lines examined are evenly spaced
\* from the first part of the track to the last.
C21_AtMostSampleSizeExamined ==
    opc # "start" =>
        /\ line_idx <= sample_size
        /\ Len(sample_lines) <= sample_size
        /\ Len(subtitle_lines) > sample_size * 3 =>
              /\ \A k \in 1..Len(sample_lines) :
                    sample_lines[k] =
                        subtitle_lines[(k - 1) * (Len(subtitle_lines) \div sample_size) + 1]
              /\ Len(sample_lines) * (Len(subtitle_lines) \div sample_size)
                    >= Len(subtitle_lines)

\* a character cue as C22 has it: indent above 20, fully upper-case, no scene
\* heading (none of "INT.", "EXT.", " - " in it) and shorter than 50
CueAsClaimed(line) ==
    /\ Indent(line) > 20
    /\ IsUpperStr(Strip(line))
    /\ ~Contains(Strip(line), <<"I", "N", "T", ".">>)
    /\ ~Contains(Strip(line), <<"E", "X", "T", ".">>)
    /\ ~Contains(Strip(line), <<" ", "-", " ">>)
    /\ Len(Strip(line)) < 50

\* C22: in screenplay mode the current speaker changes only on a line that is
\* a character cue: indent above 20, fully upper-case, not a scene heading and
\* shorter than 50.
C22_SpeakerChangesOnlyOnCue ==
    [][(mode = "screenplay" /\ line_no' = line_no + 1 /\ current_char' # current_char)
          => CueAsClaimed(file_lines[line_no'])]_vars

\* the brace or bracket counts of the text differ
Unbalanced(json_text) ==
    \/ Count(json_text, "{") # Count(json_text, "}")
    \/ Count(json_text, "[") # Count(json_text, "]")

\* the json.loads that _repair_json runs on the completed text, where it runs
\* one at all: [ok, v]
RepairLoads(json_text) ==
    IF \/ Count(json_text, "{") > Count(json_text, "}")
       \/ Count(json_text, "[") > Count(json_text, "]")
    THEN JsonLoads(TrimToLastComma(json_text, RFind(json_text, <<",">>))
                   \o Repeat("]", Count(json_text, "[") - Count(json_text, "]"))
                   \o Repeat("}", Count(json_text, "{") - Count(json_text, "}")))
    ELSE [ok |-> FALSE, v |-> JNull]

\* a strategy on its text: it succeeds when the text, or the text repaired,
\* loads; a repair is attempted on unbalanced text only
StrategySucceeds(json_text) ==
    \/ JsonLoads(json_text).ok
    \/ Unbalanced(json_text) /\ RepairLoads(json_text).ok
StrategyValue(json_text) ==
    IF JsonLoads(json_text).ok THEN JsonLoads(json_text).v ELSE RepairLoads(json_text).v

\* the three strategies of C23 in their order on one response: the value of
\* the first that succeeds, None when none does
FirstSuccess(response, fence, start) ==
    IF JsonLoads(response).ok THEN JsonLoads(response).v
    ELSE IF fence.matched /\ StrategySucceeds(fence.text) THEN StrategyValue(fence.text)
    ELSE IF start >= 0 /\ StrategySucceeds(Slice(response, start, Len(response)))
         THEN StrategyValue(Slice(response, start, Len(response)))
    ELSE JNull

\* every strategy and every repair failed on the response
AllFailed(response, fence, start) ==
    /\ ~JsonLoads(response).ok
    /\ fence.matched => ~StrategySucceeds(fence.text)
    /\ start >= 0 => ~StrategySucceeds(Slice(response, start, Len(response)))

\* C23: _parse_json_response returns the result of the first of its strategies
\* (whole response, fenced block, text from the first "{") that succeeds,
\* repairs only text with unbalanced brace or bracket counts, and returns None
\* only when every strategy and repair has failed.
C23_FirstSuccessOrNone ==
    jpc = "done" =>
        /\ jresult = FirstSuccess(ResponseText(jdoc, jcut, jwrap),
                                  FenceMatch(ResponseText(jdoc, jcut, jwrap)),
                                  Find(ResponseText(jdoc, jcut, jwrap), <<"{">>))
        /\ jresult = JNull =>
               AllFailed(ResponseText(jdoc, jcut, jwrap),
                         FenceMatch(ResponseText(jdoc, jcut, jwrap)),
                         Find(ResponseText(jdoc, jcut, jwrap), <<"{">>))

\* the generate call in hand has come to its end: its last event is an
\* endpoint call that answered, that failed with another error, or that was
\* the last of MAX_RETRIES rate-limited ones
CallEnded(evs) ==
    /\ evs # <<>>
    /\ evs[Len(evs)].ev = "call"
    /\ evs[Len(evs)].out = "rate_limit" => CallsUpTo(evs, Len(evs)) = MAX_RETRIES

\* C24: the chunks are processed strictly in sequence: the loop moves from
\* chunk i to chunk i + 1 only when the generate call for chunk i, with all of
\* its retries and sleeps, has returned or raised; a call is begun only when
\* none is in hand and every earlier chunk has its outcome; endpoint calls and
\* sleeps happen only inside the one call in hand.
C24_ChunksInSequence ==
    [][/\ chunk_idx' # chunk_idx =>
             /\ chunk_idx' = chunk_idx + 1
             /\ gen = "running" /\ gen' \in {"returned", "raised"}
             /\ CallEnded(events')
             /\ Len(outcomes') = chunk_idx'
       /\ (gen' = "running" /\ events' = <<>>) =>
             /\ gen # "running" /\ pc = "loop"
             /\ chunk_idx' = chunk_idx
             /\ Len(outcomes) = chunk_idx
       /\ events' # events /\ events' # <<>> =>
             /\ gen = "running" /\ pc = "call"
             /\ IsPrefix(events, events')
       /\ (gen' = "running") <=> (pc' = "call")]_vars

\* the second chunk's call has ended, after a first chunk whose call was
\* retried to the end and raised
C24_Witness ==
    /\ chunk_idx = 2 /\ pc = "loop"
    /\ Len(outcomes) = 2
    /\ outcomes[1].kind = "rate_limit"
    /\ outcomes[2].kind = "response"
    /\ events = <<CallEvent("rate_limit"), SleepEvent(60), CallEvent("ok")>>

\* C25: run_gemini_fusion retries a model call that fails with a rate-limit
\* signal, with the bounded exponential backoff of the chunked parser, and the
\* fusion is reported as failed only after the retries are exhausted.
C25_FusionRetriesRateLimits ==
    /\ IsPrefix(SleepsOf(fusion_events), <<60, 120, 240, 300>>)
    /\ \A j \in 1..Len(fusion_events) :
         (fusion_events[j].ev = "call" /\ fusion_events[j].out = "rate_limit")
            => IF CallsUpTo(fusion_events, j) < MAX_RETRIES
               THEN j < Len(fusion_events) /\ fusion_events[j + 1].ev = "sleep"
               ELSE j = Len(fusion_events)
    /\ (ppc = "done" /\ Said("Error") /\ fusion_events # <<>>
          /\ fusion_events[Len(fusion_events)].out = "rate_limit")
         => CallsUpTo(fusion_events, Len(fusion_events)) = MAX_RETRIES

\* what llm_text's _parse_json_response makes of each response
TextParsed == [k \in 1..Len(Responses) |-> llm_text_parse_json_response(Responses[k])]

\* what llm_text's _convert_scriptdle_data makes of each response's data, where
\* there is data
TextConverted ==
    [k \in 1..Len(Responses) |->
        IF Truthy(TextParsed[k]) THEN llm_text_convert_scriptdle_data(TextParsed[k])
        ELSE ConvRaise]

\* the processing of a chunk failed: the endpoint raised, the response (0 is
\* a response without text) did not parse to data, or the conversion raised
TextChunkFailed(o) ==
    \/ o.kind # "response"
    \/ o.k = 0
    \/ ~Truthy(TextParsed[o.k])
    \/ TextConverted[o.k].raised

\* the step that ends a chunk with outcome o added all of it or nothing
AllOrNothing(o) ==
    IF TextChunkFailed(o)
    THEN UNCHANGED <<all_lines, all_characters, detected_title>>
    ELSE /\ all_lines' = all_lines \o TextConverted[o.k].lines
         /\ all_characters' = all_characters \cup TextConverted[o.k].characters

\* C27: a chunk of parse_text_llm contributes all or nothing: when its
\* processing fails the accumulated lines, characters and detected title stay
\* what they were before it; when it succeeds all of its converted lines and
\* characters are added.
C27_ChunkAllOrNothing ==
    [][(parser = "text" /\ chunk_idx' = chunk_idx + 1) =>
         AllOrNothing(outcomes'[Len(outcomes')])]_vars

\* after a chunk that gave lines and a title, a chunk whose response parsed to
\* data with a title and then made the conversion raise has left all as it was
C27_Witness ==
    /\ parser = "text" /\ pc = "loop" /\ chunk_idx = 2
    /\ outcomes = <<[kind |-> "response", k |-> 1], [kind |-> "response", k |-> 7]>>
    /\ Truthy(Get(TextParsed[7], K_title, JNull))
    /\ TextConverted[7].raised
    /\ all_lines = TextConverted[1].lines
    /\ all_lines # <<>>
    /\ detected_title = Get(TextParsed[1], K_title, JNull)

\* the line at k is a character cue
IsCueAt(lines, k) == Strip(lines[k]) # <<>> /\ IsCue(lines[k], Strip(lines[k]))

\* the line at n is a cue, and so is the line at c before it, with no line
\* between the two accepted as dialogue: none shaped as dialogue, or no
\* speaker named by the earlier cue to accept it for
BareCueBefore(lines, c, n) ==
    /\ IsCueAt(lines, c)
    /\ \A k \in (c + 1)..(n - 1) : ~IsCueAt(lines, k)
    /\ \/ CueName(lines[c]) = <<>>
       \/ \A k \in (c + 1)..(n - 1) : k \notin DialogueLines(lines)

CueAfterBareCue(lines, n) ==
    IsCueAt(lines, n) /\ \E c \in 1..(n - 1) : BareCueBefore(lines, c, n)

\* C28: in screenplay mode, after every input line the dialogue accumulator is
\* non-empty only if a non-empty current character is set, and a cue that
\* follows another cue with no accepted dialogue line in between emits no
\* record for the first cue.
C28_DialogueOnlyWithSpeaker ==
    [][(mode = "screenplay" /\ line_no' = line_no + 1) =>
          /\ current_dialogue' # <<>> => current_char' # <<>>
          /\ CueAfterBareCue(file_lines, line_no') =>
                script_data' = script_data /\ current_dialogue' = <<>>]_vars

\* two cues in a row, then a line of dialogue: the one record of the run is
\* the second cue's
C28_Witness ==
    /\ mode = "screenplay" /\ spc = "done"
    /\ Len(file_lines) = 3
    /\ CueLines(file_lines) = {1, 2}
    /\ DialogueLines(file_lines) = {3}
    /\ CueName(file_lines[1]) # <<>>
    /\ CueName(file_lines[1]) # CueName(file_lines[2])
    /\ Len(script_data) = 1
    /\ script_data[1].character = CueName(file_lines[2])

\* C29: whatever the steps, run_gemini_fusion is invoked only with subtitle
\* information in hand and a non-empty list of validation results; a stage
\* that yields nothing (no subtitles, no scripts, no script passing the
\* validation when it runs) ends the run with None and no fusion; and
\* validation_results[0] is never taken of an empty list.
C29_FusionOnlyAfterEveryStage ==
    /\ ppc # "raised"
    /\ ppc \in {"step2", "step3", "validate", "step4"} => subtitle_info # <<>>
    /\ ppc \in {"step3", "validate", "step4"} => script_artifacts # <<>>
    /\ ppc = "step4" => results # <<>>
    /\ fusion_calls > 0 =>
          /\ "fuse" \in steps
          /\ subtitle_info # <<>>
          /\ results # <<>>
          /\ best_script = <<results[1]>>
    /\ (/\ ppc = "done"
        /\ \/ subtitle_info = <<>>
           \/ script_artifacts = <<>>
           \/ "validate" \in steps /\ results = <<>>)
         => fused = <<>> /\ fusion_calls = 0 /\ best_script = <<>>

\* a run asked to validate and fuse, with subtitles and two scripts of which
\* none passed the validation, has ended without a fusion
C29_Witness ==
    /\ ppc = "done"
    /\ {"validate", "fuse"} \subseteq steps
    /\ subtitle_info # <<>>
    /\ Len(script_artifacts) = 2
    /\ artifact_idx = 2
    /\ results = <<>>
    /\ Said("Pipeline failed: No scripts passed validation")
    /\ fusion_calls = 0
    /\ fused = <<>>

\* the fractions a and b are the same number
SameScore(a, b) == a[1] * b[2] = b[1] * a[2]

\* C30: the script_overlap_score of every FusedDialogue run_pipeline produces
\* is the overlap score calculate_overlap computed in that run for the chosen
\* script against the chosen subtitle track, whatever steps led to the fusion.
C30_FusedScoreIsComputedOverlap ==
    (ppc = "done" /\ fused # <<>>) =>
        SameScore(fused[1].script_overlap_score,
                  OverlapScore(script_artifacts[fused[1].script_source].matched,
                               subtitle_info[1].total_checked))

====
